---------------------------- MODULE Spec2Model ----------------------------
(***************************************************************************)
(* A model of the reed library store (src/src/library.rs) and of the       *)
(* entry data it persists (src/src/model.rs).                              *)
(*                                                                         *)
(* Text is a sequence of one-character strings, so that matching,          *)
(* number formatting, hexadecimal encoding and version parsing are         *)
(* computed character by character, the way the code computes them.        *)
(***************************************************************************)
EXTENDS Integers, Sequences, FiniteSets, TLC

(***************************************************************************)
(* Bounds of the model and constants of the program.                       *)
(***************************************************************************)
\* longest entry list the model builds
MaxEntries == 3
\* most patterns one QueryParams of the model supplies
MaxSupplied == 2
\* process runs (main invocations) on one library file
MaxRuns == 2
\* library calls (add_entry, remove_entry, store) over all runs
MaxOps == 3
\* bytes of a FileDigest (the output size of Sha256)
DigestLen == 32

\* Option<T>: None is the empty tuple, Some(x) the one-element tuple
None == <<>>

Some(x) == <<x>>

Range(s) == {s[i] : i \in 1..Len(s)}

(***************************************************************************)
(* Text helpers.                                                           *)
(***************************************************************************)
DigitChars == <<"0", "1", "2", "3", "4", "5", "6", "7", "8", "9">>

HexChars == <<"0", "1", "2", "3", "4", "5", "6", "7", "8", "9",
              "a", "b", "c", "d", "e", "f">>

\* u32::to_string: the decimal digits, most significant first, no padding
RECURSIVE ToDecimal(_)
ToDecimal(n) ==
    IF n < 10 THEN <<DigitChars[n + 1]>>
    ELSE Append(ToDecimal(n \div 10), DigitChars[(n % 10) + 1])

DigitValue(c) == CHOOSE d \in 0..9 : DigitChars[d + 1] = c

\* u32::from_str: Some(value), or None on an empty text, on a non-digit (a leading "+" is
\* outside the modelled alphabet) and on a value that does not fit in 32 bits
RECURSIVE DecimalValue(_)
DecimalValue(s) ==
    IF s = <<>> THEN 0
    ELSE 10 * DecimalValue(SubSeq(s, 1, Len(s) - 1)) + DigitValue(s[Len(s)])

\* u32::MAX, 4294967295, as its digits
U32MaxDigits == <<"4", "2", "9", "4", "9", "6", "7", "2", "9", "5">>

RECURSIVE StripZeros(_)
StripZeros(s) ==
    IF Len(s) > 1 /\ s[1] = "0" THEN StripZeros(Tail(s)) ELSE s

\* the digits s, without leading zeros, denote a value of at most u32::MAX
FitsU32(s) ==
    LET t == StripZeros(s)
    IN  \/ Len(t) < Len(U32MaxDigits)
        \/ /\ Len(t) = Len(U32MaxDigits)
           /\ \/ t = U32MaxDigits
              \/ \E i \in 1..Len(t) :
                     /\ SubSeq(t, 1, i - 1) = SubSeq(U32MaxDigits, 1, i - 1)
                     /\ DigitValue(t[i]) < DigitValue(U32MaxDigits[i])

ParseU32(s) ==
    IF s = <<>> \/ \E i \in 1..Len(s) : s[i] \notin Range(DigitChars) THEN None
    ELSE IF ~FitsU32(s) THEN None
    ELSE Some(DecimalValue(s))

\* str::split(sep): the pieces between the separators, empty pieces kept
RECURSIVE Split(_, _)
Split(s, sep) ==
    IF \A i \in 1..Len(s) : s[i] # sep THEN <<s>>
    ELSE LET k == CHOOSE i \in 1..Len(s) :
                      s[i] = sep /\ \A j \in 1..(i - 1) : s[j] # sep
         IN  <<SubSeq(s, 1, k - 1)>> \o Split(SubSeq(s, k + 1, Len(s)), sep)

(***************************************************************************)
(* Regular expressions.  The patterns of the model are literal texts and   *)
(* the unclosed group "(": Regex::new accepts a literal and rejects an     *)
(* unclosed group, and is_match of a literal is an unanchored substring    *)
(* search.                                                                 *)
(***************************************************************************)
RegexNewOk(p) == "(" \notin Range(p)

IsMatch(r, text) ==
    \E i \in 1..(Len(text) - Len(r) + 1) : SubSeq(text, i, i + Len(r) - 1) = r

(***************************************************************************)
(* LibraryEntryType and Month.                                             *)
(***************************************************************************)
LibraryEntryType ==
    {"Article", "Book", "Booklet", "Conference", "InBook", "InCollection",
     "InProceedings", "Manual", "MasterThesis", "Thesis", "Misc", "PHDThesis",
     "Proceedings", "Techreport", "Unpublished"}

\* Display for LibraryEntryType: the variant's name, as Debug prints it
EntryTypeToString(t) ==
    CASE t = "Article" -> <<"A", "r", "t", "i", "c", "l", "e">>
      [] t = "Book" -> <<"B", "o", "o", "k">>
      [] t = "Booklet" -> <<"B", "o", "o", "k", "l", "e", "t">>
      [] t = "Conference" -> <<"C", "o", "n", "f", "e", "r", "e", "n", "c", "e">>
      [] t = "InBook" -> <<"I", "n", "B", "o", "o", "k">>
      [] t = "InCollection" ->
             <<"I", "n", "C", "o", "l", "l", "e", "c", "t", "i", "o", "n">>
      [] t = "InProceedings" ->
             <<"I", "n", "P", "r", "o", "c", "e", "e", "d", "i", "n", "g", "s">>
      [] t = "Manual" -> <<"M", "a", "n", "u", "a", "l">>
      [] t = "MasterThesis" ->
             <<"M", "a", "s", "t", "e", "r", "T", "h", "e", "s", "i", "s">>
      [] t = "Thesis" -> <<"T", "h", "e", "s", "i", "s">>
      [] t = "Misc" -> <<"M", "i", "s", "c">>
      [] t = "PHDThesis" -> <<"P", "H", "D", "T", "h", "e", "s", "i", "s">>
      [] t = "Proceedings" ->
             <<"P", "r", "o", "c", "e", "e", "d", "i", "n", "g", "s">>
      [] t = "Techreport" -> <<"T", "e", "c", "h", "r", "e", "p", "o", "r", "t">>
      [] t = "Unpublished" ->
             <<"U", "n", "p", "u", "b", "l", "i", "s", "h", "e", "d">>

Month == {"Jan", "Feb", "Mar", "Apr", "May", "Jun",
          "Jul", "Aug", "Sep", "Oct", "Nov", "Dec"}

(***************************************************************************)
(* The entries the model adds to a library: LibraryEntry values with       *)
(* their LibraryEntryMeta.  Their texts are chosen so that one pattern     *)
(* can match a title and not the type name, a type name and not the        *)
(* title, an author only, or a year only.                                  *)
(***************************************************************************)
DigestOf(b1, b2) == [i \in 1..DigestLen |-> IF i % 2 = 1 THEN b1 ELSE b2]

EntryA ==
    [meta |-> [key |-> <<"a", "1">>, entry_type |-> "Book",
               title |-> <<"C", "a", "t">>,
               authors |-> << <<"A", "l">> >>,
               year |-> 2020, month |-> None, original_tags |-> None],
     tags |-> <<>>,
     file_paths |-> <<"docs/a.pdf">>,
     digest |-> DigestOf(0, 255)]

EntryB ==
    [meta |-> [key |-> <<"b", "2">>, entry_type |-> "Misc",
               title |-> <<"B", "o", "o", "k">>,
               authors |-> << <<"B", "o">>, <<"A", "l">> >>,
               year |-> 1999, month |-> Some("Mar"),
               original_tags |-> Some([publisher |-> "acm"])],
     tags |-> <<"ml", "db">>,
     file_paths |-> <<"docs/ml/b.pdf", "docs/db/b.pdf">>,
     digest |-> DigestOf(10, 171)]

EntryC ==
    [meta |-> [key |-> <<"c", "3">>, entry_type |-> "Article",
               title |-> <<"D", "o", "g">>,
               authors |-> << <<"C", "y">> >>,
               year |-> 7, month |-> Some("Dec"), original_tags |-> None],
     tags |-> <<"ml">>,
     file_paths |-> <<"docs/ml/c.pdf">>,
     digest |-> DigestOf(16, 9)]

EntryPool == {EntryA, EntryB, EntryC}

AllPaths == UNION {Range(e.file_paths) : e \in EntryPool}

\* every entry list of at most n pool entries
Libraries(n) == UNION {[1..k -> EntryPool] : k \in 0..n}

(***************************************************************************)
(* QueryParams: five optional patterns.                                    *)
(***************************************************************************)
Patterns == {<<"B", "o">>, <<"2", "0">>, <<"A", "r", "t">>, <<"(">>}

Fields == {"author", "year", "title", "doc_type", "general"}

Supplied(params) == {f \in Fields : params[f] # None}

QueryParams ==
    {p \in [Fields -> {None} \cup {Some(r) : r \in Patterns}] :
        Cardinality(Supplied(p)) <= MaxSupplied}


(***************************************************************************)
(* Library::query.                                                         *)
(***************************************************************************)
\* the pattern each regex of query is built from
QueryRegexSource(params) ==
    [author_regex  |-> params["author"],
     year_regex    |-> params["year"],
     title_regex   |-> params["title"],
     type_regex    |-> params["title"],
     general_regex |-> params["general"]]

\* Regex::new(p)? on every supplied pattern: one invalid pattern fails the query
QueryRegexError(params) ==
    LET src == QueryRegexSource(params)
    IN  \E k \in DOMAIN src : src[k] # None /\ ~RegexNewOk(src[k][1])

\* a general pattern that is not tried on the type name
GeneralMatchesButType(r, meta) ==
    \/ \E a \in 1..Len(meta.authors) : IsMatch(r, meta.authors[a])
    \/ IsMatch(r, meta.title)
    \/ IsMatch(r, ToDecimal(meta.year))

\* the general pattern over the authors, the title, the year and the type name
GeneralMatches(r, meta) ==
    \/ \E a \in 1..Len(meta.authors) : IsMatch(r, meta.authors[a])
    \/ IsMatch(r, meta.title)
    \/ IsMatch(r, ToDecimal(meta.year))
    \/ IsMatch(r, meta.title)
    \/ IsMatch(r, EntryTypeToString(meta.entry_type))

\* one turn of the loop of query: TRUE when no test reaches `continue`
EntryMatches(rx, meta) ==
    /\ rx.author_regex # None =>
           \E a \in 1..Len(meta.authors) : IsMatch(rx.author_regex[1], meta.authors[a])
    /\ rx.year_regex # None => IsMatch(rx.year_regex[1], ToDecimal(meta.year))
    /\ rx.title_regex # None => IsMatch(rx.title_regex[1], meta.title)
    /\ rx.type_regex # None =>
           IsMatch(rx.type_regex[1], EntryTypeToString(meta.entry_type))
    /\ rx.general_regex # None => GeneralMatches(rx.general_regex[1], meta)

\* the indices (from 0) of the matching entries, in ascending order
QueryResults(entries, params) ==
    LET rx == QueryRegexSource(params)
        Hit(i) == EntryMatches(rx, entries[i + 1].meta)
    IN  SelectSeq([k \in 1..Len(entries) |-> k - 1], Hit)

Query(entries, params) ==
    IF QueryRegexError(params)
    THEN [ok |-> FALSE, results |-> <<>>]
    ELSE [ok |-> TRUE, results |-> QueryResults(entries, params)]

(***************************************************************************)
(* Library::remove_entry.                                                  *)
(***************************************************************************)
\* Vec::remove(i), i counted from 0
VecRemove(v, i) == SubSeq(v, 1, i) \o SubSeq(v, i + 2, Len(v))

\* sort_unstable_by(|a, b| a.cmp(b).reverse()): the largest index first
RECURSIVE SortDescending(_)
SortDescending(v) ==
    IF v = <<>> THEN <<>>
    ELSE LET k == CHOOSE i \in 1..Len(v) : \A j \in 1..Len(v) : v[j] <= v[i]
         IN  <<v[k]>> \o SortDescending(SubSeq(v, 1, k - 1) \o SubSeq(v, k + 1, Len(v)))

\* for f in file_paths { std::fs::remove_file(f)?; }: a path that is not on
\* disk is an I/O error, and the paths before it are already gone
RECURSIVE RemoveFiles(_, _)
RemoveFiles(paths, disk) ==
    IF paths = <<>> THEN [ok |-> TRUE, files |-> disk]
    ELSE IF paths[1] \notin disk THEN [ok |-> FALSE, files |-> disk]
    ELSE RemoveFiles(Tail(paths), disk \ {paths[1]})

\* the entry whose files one turn of the loop deletes: entries[i], read after
\* entries.remove(i)
FileVictim(entries_after, i) ==
    IF i < Len(entries_after) THEN Some(entries_after[i + 1]) ELSE None

\* the loop over the sorted indices; result is "ok", "io" (the ? returned an
\* error) or "panic" (index out of bounds)
RECURSIVE RemoveLoop(_, _, _, _)
RemoveLoop(indices, entries, disk, remove_file) ==
    IF indices = <<>> THEN [result |-> "ok", entries |-> entries, files |-> disk]
    ELSE LET i == indices[1]
             after == VecRemove(entries, i)
         IN  IF ~remove_file THEN RemoveLoop(Tail(indices), after, disk, remove_file)
             ELSE LET victim == FileVictim(after, i)
                  IN  IF victim = None
                      THEN [result |-> "panic", entries |-> after, files |-> disk]
                      ELSE LET del == RemoveFiles(victim[1].file_paths, disk)
                           IN  IF ~del.ok
                               THEN [result |-> "io", entries |-> after,
                                     files |-> del.files]
                               ELSE RemoveLoop(Tail(indices), after, del.files,
                                               remove_file)

\* a remove_entry that goes on whatever the callback answers
ConfirmedWhateverTheAnswer(answer) == TRUE

\* if confirm_callback(query_entries)
Confirmed(answer) == answer

(***************************************************************************)
(* The persisted library: VersionSpec as "major.minor.patch", the digest   *)
(* as hexadecimal text, every other field as a plain structured value.     *)
(***************************************************************************)
\* Display for VersionSpec
VersionToString(v) ==
    ToDecimal(v.major) \o <<".">> \o ToDecimal(v.minor) \o <<".">> \o ToDecimal(v.patch)

\* FromStr for VersionSpec: every piece a u32, and exactly three pieces
VersionFromStr(text) ==
    LET digits == [k \in 1..Len(Split(text, ".")) |-> ParseU32(Split(text, ".")[k])]
    IN  IF \E k \in 1..Len(digits) : digits[k] = None THEN None
        ELSE IF Len(digits) # 3 THEN None
        ELSE Some([major |-> digits[1][1], minor |-> digits[2][1],
                   patch |-> digits[3][1]])

\* hex::encode: two lowercase digits a byte, the high half first
RECURSIVE HexEncode(_)
HexEncode(bytes) ==
    IF Len(bytes) = 0 THEN <<>>
    ELSE <<HexChars[(bytes[1] \div 16) + 1], HexChars[(bytes[1] % 16) + 1]>>
             \o HexEncode(Tail(bytes))

\* as_hex with digits that drop a leading zero, as "{:x}" prints a byte
RECURSIVE HexEncodeUnpadded(_)
HexEncodeUnpadded(bytes) ==
    IF Len(bytes) = 0 THEN <<>>
    ELSE (IF bytes[1] < 16 THEN <<HexChars[bytes[1] + 1]>>
          ELSE <<HexChars[(bytes[1] \div 16) + 1], HexChars[(bytes[1] % 16) + 1]>>)
             \o HexEncodeUnpadded(Tail(bytes))

as_hex_unpadded(digest) == HexEncodeUnpadded(digest)

as_hex(digest) == HexEncode(digest)

UpperHexChars == <<"A", "B", "C", "D", "E", "F">>

\* the value of one hexadecimal digit of either case, or None
HexDigitValue(c) ==
    IF c \in Range(HexChars) THEN Some(CHOOSE d \in 0..15 : HexChars[d + 1] = c)
    ELSE IF c \in Range(UpperHexChars)
         THEN Some(9 + CHOOSE d \in 1..6 : UpperHexChars[d] = c)
         ELSE None

\* hex::decode: None on an odd length or on a character that is no digit
HexDecode(text) ==
    IF Len(text) % 2 # 0 THEN None
    ELSE IF \E i \in 1..Len(text) : HexDigitValue(text[i]) = None THEN None
    ELSE Some([k \in 1..(Len(text) \div 2) |->
                   16 * HexDigitValue(text[2 * k - 1])[1] + HexDigitValue(text[2 * k])[1]])

\* from_hex: "err" when the text does not decode, "panic" when clone_from_slice
\* gets a slice that is not DigestLen bytes long
from_hex(text) ==
    LET v == HexDecode(text)
    IN  IF v = None THEN [result |-> "err", digest |-> <<>>]
        ELSE IF Len(v[1]) # DigestLen THEN [result |-> "panic", digest |-> <<>>]
        ELSE [result |-> "ok", digest |-> v[1]]

SerializeEntry(e) ==
    [meta |-> e.meta, tags |-> e.tags, file_paths |-> e.file_paths,
     digest |-> as_hex(e.digest)]

DeserializeEntry(j) ==
    [meta |-> j.meta, tags |-> j.tags, file_paths |-> j.file_paths,
     digest |-> from_hex(j.digest).digest]

\* the library file: absent, a JSON document, or a document cut short
AbsentFile == [state |-> "absent", creation_version |-> <<>>, entries |-> <<>>]

PartialFile == [state |-> "partial", creation_version |-> <<>>, entries |-> <<>>]

\* serde_json::to_writer(file, &self.content)
SerializeLibrary(c) ==
    [state |-> "json",
     creation_version |-> VersionToString(c.creation_version),
     entries |-> [k \in 1..Len(c.entries) |-> SerializeEntry(c.entries[k])]]

NoContent == [creation_version |-> [major |-> 0, minor |-> 0, patch |-> 0],
              entries |-> <<>>]

\* serde_json::from_reader(File::open(&path)?)?
DeserializeLibrary(f) ==
    IF f.state # "json" THEN [result |-> "err", content |-> NoContent]
    ELSE LET v == VersionFromStr(f.creation_version)
             ds == [k \in 1..Len(f.entries) |-> from_hex(f.entries[k].digest).result]
         IN  IF v = None \/ \E k \in 1..Len(ds) : ds[k] = "err"
             THEN [result |-> "err", content |-> NoContent]
             ELSE IF \E k \in 1..Len(ds) : ds[k] = "panic"
             THEN [result |-> "panic", content |-> NoContent]
             ELSE [result |-> "ok",
                   content |-> [creation_version |-> v[1],
                                entries |-> [k \in 1..Len(f.entries) |->
                                                DeserializeEntry(f.entries[k])]]]

\* the releases of the program that run on the library file (crate_version!())
CrateVersions == {[major |-> 0, minor |-> 1, patch |-> 0],
                  [major |-> 1, minor |-> 10, patch |-> 203]}

\* LibraryFile::default()
DefaultLibraryFile(crate_version) ==
    [creation_version |-> VersionFromStr(VersionToString(crate_version))[1],
     entries |-> <<>>]

\* what File::create and the write of store can do: succeed, fail to create
\* the file (the file stays as it was), fail while writing (the file is cut)
StoreOutcomes == {"ok", "create_failed", "write_failed"}

StoredFile(c, old, outcome) ==
    CASE outcome = "ok" -> SerializeLibrary(c)
      [] outcome = "create_failed" -> old
      [] outcome = "write_failed" -> PartialFile

(***************************************************************************)
(* The state: one library file and the document files on disk, and the     *)
(* Library of the running process.                                         *)
(***************************************************************************)
VARIABLES
    pc,        \* where main is: "start", "running" (the Library is alive),
               \* "unwinding" (a panic is unwinding main), "done", "exited"
               \* (load failed, main returned), "panicked", "aborted"
    file,      \* the library file at library_location
    docs,      \* the paths of the document files on disk
    content,   \* Library.content: creation_version and entries
    changed,   \* Library.changed
    last,      \* the last call on the library and what it returned
    log,       \* how this run's Library came to be ("new", "loaded"), whether
               \* an entry was added and whether a removal was confirmed
    stored,    \* the content the last successful store wrote
    runs,      \* process runs started
    ops,       \* library calls made
    fs,        \* the files import works on: bibliography files, the files to
               \* import and the tree under document_location
    imp,       \* the last call of import, of bib::import or of assemble_name
    procs      \* the processes that run main at the same time on one library
               \* file, each with its own Library

vars == <<pc, file, docs, content, changed, last, log, stored, runs, ops, fs, imp,
          procs>>

NoParams == [f \in Fields |-> None]

NoCall ==
    [op |-> "none", params |-> NoParams, remove_file |-> FALSE, answer |-> FALSE,
     asked |-> FALSE, result |-> "ok", matched |-> <<>>, wrote |-> FALSE,
     outcome |-> "ok", entries0 |-> <<>>, changed0 |-> FALSE, docs0 |-> {},
     file0 |-> AbsentFile]

\* a call of `op` made in the current state
Call(op) ==
    [NoCall EXCEPT !.op = op, !.entries0 = content.entries, !.changed0 = changed,
                   !.docs0 = docs, !.file0 = file]

NoLog == [origin |-> "none", added |-> FALSE, removed |-> FALSE]

\* no file of interest to import
NoFs == [files |-> {}, bibs |-> {}, dirs |-> {}]

\* no call of import yet
NoImport == [op |-> "none"]

\* no processes side by side
NoProcs == <<>>

\* before the first run: no library file yet, the documents of the entries
\* the runs will add are on disk
Init ==
    /\ pc = "start"
    /\ file = AbsentFile
    /\ docs = AllPaths
    /\ content = NoContent
    /\ changed = FALSE
    /\ last = NoCall
    /\ log = NoLog
    /\ stored = NoContent
    /\ runs = 1
    /\ ops = 0
    /\ fs = NoFs
    /\ imp = NoImport
    /\ procs = NoProcs

(***************************************************************************)
(* load_from_cfg: Library::new when no file is at the path, else           *)
(* Library::load; main returns when load fails.                            *)
(***************************************************************************)
LibraryNew(crate_version) ==
    /\ content' = DefaultLibraryFile(crate_version)
    /\ changed' = TRUE
    /\ pc' = "running"
    /\ last' = Call("new")
    /\ log' = [NoLog EXCEPT !.origin = "new"]

LibraryLoad ==
    LET r == DeserializeLibrary(file)
    IN  /\ content' = r.content
        /\ changed' = FALSE
        /\ pc' = CASE r.result = "ok" -> "running"
                   [] r.result = "err" -> "exited"
                   [] r.result = "panic" -> "panicked"
        /\ last' = [Call("load") EXCEPT !.result = r.result]
        /\ log' = [NoLog EXCEPT !.origin = IF r.result = "ok" THEN "loaded" ELSE "none"]

LoadFromCfg ==
    /\ pc = "start"
    /\ IF file.state = "absent"
       THEN \E v \in CrateVersions : LibraryNew(v)
       ELSE LibraryLoad
    /\ UNCHANGED <<file, docs, stored, runs, ops, fs, imp, procs>>

(***************************************************************************)
(* Library::add_entry.                                                     *)
(***************************************************************************)
\* an insertion at the front
PushFront(entries, entry) == <<entry>> \o entries

\* Vec::push
Push(entries, entry) == Append(entries, entry)

AddEntry ==
    /\ pc = "running"
    /\ ops < MaxOps
    /\ Len(content.entries) < MaxEntries
    /\ \E entry \in EntryPool :
           content' = [content EXCEPT !.entries = Push(content.entries, entry)]
    /\ changed' = TRUE
    /\ last' = Call("add")
    /\ log' = [log EXCEPT !.added = TRUE]
    /\ ops' = ops + 1
    /\ UNCHANGED <<pc, file, docs, stored, runs, fs, imp, procs>>

(***************************************************************************)
(* Library::query, called on its own.                                      *)
(***************************************************************************)
QueryCall ==
    /\ pc = "running"
    /\ ops < MaxOps
    /\ \E params \in QueryParams :
           LET q == Query(content.entries, params)
           IN  last' = [Call("query") EXCEPT
                            !.params = params,
                            !.result = IF q.ok THEN "ok" ELSE "regex",
                            !.matched = q.results]
    /\ ops' = ops + 1
    /\ UNCHANGED <<pc, file, docs, content, changed, log, stored, runs, fs, imp, procs>>

(***************************************************************************)
(* Library::remove_entry(query_params, remove_file, confirm_callback);     *)
(* answer is what the callback returns when it is called.                  *)
(***************************************************************************)
RemoveEntryWith(params, remove_file, answer) ==
    LET q == Query(content.entries, params)
        call == [Call("remove") EXCEPT !.params = params,
                                       !.remove_file = remove_file,
                                       !.answer = answer,
                                       !.matched = q.results]
    IN  IF ~q.ok
        THEN /\ last' = [call EXCEPT !.result = "regex"]
             /\ UNCHANGED <<pc, docs, content, changed, log>>
        ELSE IF ~Confirmed(answer)
        THEN /\ last' = [call EXCEPT !.asked = TRUE]
             /\ UNCHANGED <<pc, docs, content, changed, log>>
        ELSE LET r == RemoveLoop(SortDescending(q.results), content.entries, docs,
                                 remove_file)
             IN  /\ last' = [call EXCEPT !.asked = TRUE, !.result = r.result]
                 /\ content' = [content EXCEPT !.entries = r.entries]
                 /\ docs' = r.files
                 /\ changed' = IF r.result = "ok" THEN TRUE ELSE changed
                 /\ pc' = IF r.result = "panic" THEN "unwinding" ELSE pc
                 /\ log' = [log EXCEPT !.removed = TRUE]

\* remove_entry with any query the model builds
RemoveEntry ==
    /\ pc = "running"
    /\ ops < MaxOps
    /\ \E params \in QueryParams, remove_file \in BOOLEAN, answer \in BOOLEAN :
           RemoveEntryWith(params, remove_file, answer)
    /\ ops' = ops + 1
    /\ UNCHANGED <<file, stored, runs, fs, imp, procs>>

\* remove_entry with at most a general pattern
GeneralParams ==
    {[f \in Fields |-> IF f = "general" THEN g ELSE None] :
        g \in {None} \cup {Some(r) : r \in Patterns}}

RemoveEntryGeneral ==
    /\ pc = "running"
    /\ ops < MaxOps
    /\ \E params \in GeneralParams, remove_file \in BOOLEAN, answer \in BOOLEAN :
           RemoveEntryWith(params, remove_file, answer)
    /\ ops' = ops + 1
    /\ UNCHANGED <<file, stored, runs, fs, imp, procs>>

(***************************************************************************)
(* Library::store, called by the owner of the library.                     *)
(***************************************************************************)
Store ==
    /\ pc = "running"
    /\ ops < MaxOps
    /\ \E outcome \in StoreOutcomes :
           /\ file' = StoredFile(content, file, outcome)
           /\ stored' = IF outcome = "ok" THEN content ELSE stored
           /\ last' = [Call("store") EXCEPT
                           !.wrote = TRUE, !.outcome = outcome,
                           !.result = IF outcome = "ok" THEN "ok" ELSE "io"]
    /\ ops' = ops + 1
    /\ UNCHANGED <<pc, docs, content, changed, log, runs, fs, imp, procs>>

(***************************************************************************)
(* Drop for Library, at the end of main or while a panic unwinds it:       *)
(* if self.changed { self.store().unwrap() }.                              *)
(***************************************************************************)
\* a drop that stores whatever the flag
ShouldStoreAlways(flag) == TRUE

\* if self.changed
ShouldStore(flag) == flag

\* what unwrap does with the result of store: "ok", or "panic" on an Err
Unwrap(outcome) == IF outcome = "ok" THEN "ok" ELSE "panic"

Drop ==
    /\ pc \in {"running", "unwinding"}
    /\ IF ShouldStore(changed)
       THEN \E outcome \in StoreOutcomes :
                /\ file' = StoredFile(content, file, outcome)
                /\ stored' = IF outcome = "ok" THEN content ELSE stored
                /\ last' = [Call("drop") EXCEPT !.wrote = TRUE, !.outcome = outcome,
                                                !.result = Unwrap(outcome)]
                /\ pc' = CASE Unwrap(outcome) = "panic" /\ pc = "unwinding" -> "aborted"
                           [] Unwrap(outcome) = "panic" /\ pc = "running" -> "panicked"
                           [] Unwrap(outcome) = "ok" /\ pc = "unwinding" -> "panicked"
                           [] Unwrap(outcome) = "ok" /\ pc = "running" -> "done"
       ELSE /\ last' = Call("drop")
            /\ pc' = IF pc = "unwinding" THEN "panicked" ELSE "done"
            /\ UNCHANGED <<file, stored>>
    /\ UNCHANGED <<docs, content, changed, log, runs, ops, fs, imp, procs>>

(***************************************************************************)
(* The program is run again on the same files.                             *)
(***************************************************************************)
Restart ==
    /\ pc \in {"done", "exited", "panicked", "aborted", "stopped"}
    /\ runs < MaxRuns
    /\ pc' = "start"
    /\ runs' = runs + 1
    /\ content' = NoContent
    /\ changed' = FALSE
    /\ log' = NoLog
    /\ last' = NoCall
    /\ UNCHANGED <<file, docs, stored, ops, fs, imp, procs>>

Next ==
    \/ LoadFromCfg
    \/ AddEntry
    \/ RemoveEntryGeneral
    \/ Store
    \/ Drop
    \/ Restart

\* a library file and the runs of the program on it
Spec == Init /\ [][Next]_vars

(***************************************************************************)
(* A library just loaded from a file of any entries, with one call left    *)
(* to make on it: a call of query or of remove_entry.                      *)
(***************************************************************************)
InitQuery ==
    /\ pc = "running"
    /\ \E l \in Libraries(MaxEntries) :
           /\ content = [creation_version |-> [major |-> 0, minor |-> 1, patch |-> 0],
                         entries |-> l]
           /\ file = SerializeLibrary(content)
           /\ stored = content
    /\ docs = AllPaths
    /\ changed = FALSE
    /\ last = NoCall
    /\ log = [NoLog EXCEPT !.origin = "loaded"]
    /\ runs = 1
    /\ ops = MaxOps - 1
    /\ fs = NoFs
    /\ imp = NoImport
    /\ procs = NoProcs

NextQuery ==
    \/ QueryCall
    \/ RemoveEntry

SpecQuery == InitQuery /\ [][NextQuery]_vars

(***************************************************************************)
(* Properties of remove_entry and query, read off the last call.           *)
(***************************************************************************)
\* the entries of v at the positions (from 0) that pass Keep, in order
IndicesWhere(n, Keep(_)) == SelectSeq([k \in 1..n |-> k - 1], Keep)

\* v without the entries at the indices (from 0) in gone, the order kept
WithoutIndices(v, gone) ==
    LET Stays(i) == i \notin gone
        keep == IndicesWhere(Len(v), Stays)
    IN  [k \in 1..Len(keep) |-> v[keep[k] + 1]]

\* the file paths of the entries the query of the last call matched
MatchedPaths ==
    UNION {Range(last.entries0[i + 1].file_paths) : i \in Range(last.matched)}

ConfirmedRemoval == last.op = "remove" /\ last.asked /\ last.answer

\* the one pattern of the last call's params, when only `field` is supplied
OnlyPattern(field) == last.params[field][1]

OnlySupplied(field) ==
    /\ last.op \in {"query", "remove"}
    /\ Supplied(last.params) = {field}

\* C1: a confirmed remove_entry, with or without file deletion, completes
\* and leaves exactly the entries at the indices the query did not match, in
\* their original order.
C1_RemovesExactlyTheMatched ==
    ConfirmedRemoval =>
        /\ last.result = "ok"
        /\ content.entries = WithoutIndices(last.entries0, Range(last.matched))

\* C2: a confirmed remove_entry with file deletion that returns Ok has
\* deleted from disk exactly the file paths of the matched entries, so no
\* file of a surviving entry.
C2_DeletesFilesOfTheMatched ==
    (ConfirmedRemoval /\ last.remove_file /\ last.result = "ok") =>
        last.docs0 \ docs = MatchedPaths

\* C3: when the confirmation function returns false, remove_entry returns
\* Ok and the entries, the dirty flag, the document files and the library
\* file are what they were, for every query and both values of remove_file.
C3_VetoChangesNothing ==
    (last.op = "remove" /\ last.asked /\ ~last.answer) =>
        /\ last.result = "ok"
        /\ pc = "running"
        /\ content.entries = last.entries0
        /\ changed = last.changed0
        /\ docs = last.docs0
        /\ file = last.file0

\* a vetoed removal of some, not all, entries with file deletion asked for
C3_Witness ==
    /\ last.op = "remove" /\ last.asked /\ ~last.answer /\ last.remove_file
    /\ last.matched # <<>>
    /\ Len(last.matched) < Len(last.entries0)
    /\ content.entries = last.entries0

\* C4: a query that supplies only a type pattern returns exactly the indices
\* of the entries whose entry-type name matches that pattern.
C4_TypePatternFiltersType ==
    (OnlySupplied("doc_type") /\ RegexNewOk(OnlyPattern("doc_type"))) =>
        LET TypeHit(i) ==
                IsMatch(OnlyPattern("doc_type"),
                        EntryTypeToString(last.entries0[i + 1].meta.entry_type))
        IN  /\ last.result # "regex"
            /\ last.matched = IndicesWhere(Len(last.entries0), TypeHit)

\* C5: a query that supplies only a title pattern returns exactly the
\* indices of the entries whose title matches that pattern, whatever their
\* type, authors or year.
C5_TitlePatternFiltersTitle ==
    (OnlySupplied("title") /\ RegexNewOk(OnlyPattern("title"))) =>
        LET TitleHit(i) ==
                IsMatch(OnlyPattern("title"), last.entries0[i + 1].meta.title)
        IN  /\ last.result # "regex"
            /\ last.matched = IndicesWhere(Len(last.entries0), TitleHit)

\* C6: when one of the supplied patterns is not a valid regular expression
\* the query fails with the invalid-regex error; a remove_entry using it
\* does not call the confirmation function and leaves the entries and the
\* dirty flag unchanged.
C6_InvalidPatternFailsQuery ==
    (/\ last.op \in {"query", "remove"}
     /\ \E f \in Supplied(last.params) : ~RegexNewOk(last.params[f][1])) =>
        /\ last.result = "regex"
        /\ ~last.asked
        /\ content.entries = last.entries0
        /\ changed = last.changed0

WrittenAtTeardown ==
    last.op = "drop" /\ last.wrote /\ last.outcome = "ok"
        /\ file = SerializeLibrary(content)

\* this run's library was loaded, and nothing was added and no removal
\* confirmed since
LoadedAndUntouched == log.origin = "loaded" /\ ~log.added /\ ~log.removed

CreatedOrAddedTo == log.origin = "new" \/ log.added

StartsEmptyAndDirtyOrClean ==
    /\ last.op = "new" => (content.entries = <<>> /\ changed)
    /\ (last.op = "load" /\ last.result = "ok") => ~changed

\* C8, as stated: a created library starts empty and dirty, a loaded one
\* clean, and at teardown the library is written to its storage path exactly
\* when it is dirty: never when it was loaded and left alone, always when it
\* was created or added to.
C8_WrittenIffDirty ==
    /\ StartsEmptyAndDirtyOrClean
    /\ last.op = "drop" =>
           /\ WrittenAtTeardown <=> last.changed0
           /\ LoadedAndUntouched => (~WrittenAtTeardown /\ file = last.file0)
           /\ CreatedOrAddedTo => WrittenAtTeardown

\* C8, amended: at teardown a write of the library is attempted exactly when
\* it is dirty, and the file holds the library when that write succeeds; a
\* library loaded and left alone is never rewritten, and for one created or
\* added to the write is always attempted.
C8_StoreAttemptedIffDirty ==
    /\ StartsEmptyAndDirtyOrClean
    /\ last.op = "drop" =>
           /\ last.wrote <=> last.changed0
           /\ (last.wrote /\ last.outcome = "ok") => file = SerializeLibrary(content)
           /\ ~last.wrote => file = last.file0
           /\ LoadedAndUntouched => (~last.wrote /\ file = last.file0)
           /\ CreatedOrAddedTo => last.wrote

\* the teardown of a loaded library that an entry was added to, the write
\* succeeding
C8_Witness ==
    /\ WrittenAtTeardown
    /\ log.origin = "loaded" /\ log.added
    /\ file # last.file0

\* C9: when the write fails at the teardown of a dirty library, teardown
\* completes normally: no panic, the program is not aborted.
C9_TeardownFailureNotPropagated ==
    (last.op = "drop" /\ last.wrote /\ last.outcome # "ok") =>
        /\ last.result = "ok"
        /\ pc # "aborted"

\* C10: store, then load from the same path: the load succeeds and gives a
\* clean library with the creation version and the entries that were
\* stored, field by field and in the same order; the digests are in the file
\* as lowercase hexadecimal, two digits a byte.
C10_StoreLoadRoundTrip ==
    /\ (last.wrote /\ last.outcome = "ok") =>
           /\ LET loaded == DeserializeLibrary(file)
              IN  loaded.result = "ok" /\ loaded.content = content
           /\ \A k \in 1..Len(file.entries) :
                  /\ Len(file.entries[k].digest) = 2 * DigestLen
                  /\ Range(file.entries[k].digest) \subseteq Range(HexChars)
    /\ (last.op = "load" /\ last.file0.state = "json") =>
           /\ last.result = "ok"
           /\ ~changed
           /\ content = stored

\* a library of two entries, with tags and a three-part version of several
\* digits, loaded back from the file an earlier run stored
C10_Witness ==
    /\ last.op = "load" /\ last.result = "ok"
    /\ Len(content.entries) = 2
    /\ content.entries[2] = EntryB
    /\ content.creation_version = [major |-> 1, minor |-> 10, patch |-> 203]
    /\ runs = 2

(***************************************************************************)
(* mod bib of import.rs: a BibTeX document becomes LibraryEntryMeta        *)
(* records.  Bibtex::parse of nom_bibtex splits the document into blocks   *)
(* (entry type, citation key, tags in order) or rejects it as a whole;     *)
(* a document is modelled by whether its syntax is accepted and by its     *)
(* blocks.                                                                 *)
(***************************************************************************)
UpperChars == <<"A", "B", "C", "D", "E", "F", "G", "H", "I", "J", "K", "L", "M",
                "N", "O", "P", "Q", "R", "S", "T", "U", "V", "W", "X", "Y", "Z">>

LowerChars == <<"a", "b", "c", "d", "e", "f", "g", "h", "i", "j", "k", "l", "m",
                "n", "o", "p", "q", "r", "s", "t", "u", "v", "w", "x", "y", "z">>

\* the lowercase letter of every uppercase letter
LowerOf ==
    [c \in Range(UpperChars) |->
        LowerChars[CHOOSE i \in 1..Len(UpperChars) : UpperChars[i] = c]]

ToLowerChar(c) == IF c \in DOMAIN LowerOf THEN LowerOf[c] ELSE c

\* str::to_lowercase
ToLowercase(s) == [i \in 1..Len(s) |-> ToLowerChar(s[i])]

\* the positions at which the text sep occurs in s
Occurrences(s, sep) ==
    {i \in 1..(Len(s) - Len(sep) + 1) : SubSeq(s, i, i + Len(sep) - 1) = sep}

\* str::split(sep) for a separator of several characters
RECURSIVE SplitStr(_, _)
SplitStr(s, sep) ==
    IF Occurrences(s, sep) = {} THEN <<s>>
    ELSE LET k == CHOOSE i \in Occurrences(s, sep) :
                      \A j \in Occurrences(s, sep) : i <= j
         IN  <<SubSeq(s, 1, k - 1)>> \o SplitStr(SubSeq(s, k + Len(sep), Len(s)), sep)

\* parse_author_list
parse_author_list(authors) == SplitStr(authors, <<" ", "a", "n", "d", " ">>)

\* parse_entry_type: the lowercased name is looked up in a table that holds
\* the lowercased name of every variant (EntryTypeTable); None is the Err
EntryTypeTable ==
    [t \in LibraryEntryType |-> ToLowercase(EntryTypeToString(t))]

parse_entry_type(name) ==
    LET lower == ToLowercase(name)
        known == {t \in LibraryEntryType : EntryTypeTable[t] = lower}
    IN  IF known = {} THEN None ELSE Some(CHOOSE t \in known : TRUE)

MonthByNumber == <<"Jan", "Feb", "Mar", "Apr", "May", "Jun",
                   "Jul", "Aug", "Sep", "Oct", "Nov", "Dec">>

\* Month::from_number; None is the Err(OutOfBounds)
from_number(num) ==
    IF num \in 1..Len(MonthByNumber) THEN Some(MonthByNumber[num]) ELSE None

\* the three-character texts from_str knows, in the order of the months
MonthInitials ==
    << <<"j", "a", "n">>, <<"f", "e", "b">>, <<"m", "a", "r">>, <<"a", "p", "r">>,
       <<"m", "a", "y">>, <<"j", "u", "n">>, <<"j", "u", "l">>, <<"a", "u", "g">>,
       <<"s", "e", "p">>, <<"o", "c", "t">>, <<"n", "o", "v">>, <<"d", "e", "c">> >>

\* FromStr for Month: a number goes to from_number, any other text is
\* known by its first three characters, lowercased; None is the Err
MonthFromStr(s) ==
    IF ParseU32(s) # None THEN from_number(ParseU32(s)[1])
    ELSE LET init == ToLowercase(SubSeq(s, 1, IF Len(s) < 3 THEN Len(s) ELSE 3))
             hits == {i \in 1..Len(MonthInitials) : MonthInitials[i] = init}
         IN  IF hits = {} THEN None
             ELSE Some(MonthByNumber[CHOOSE i \in hits : TRUE])

\* find_tag of import_bib: the first tag whose lowercased name is tag
find_tag(b, tag) ==
    LET hits == {i \in 1..Len(b.tags) : ToLowercase(b.tags[i][1]) = tag}
    IN  IF hits = {} THEN None
        ELSE Some(b.tags[CHOOSE i \in hits : \A j \in hits : i <= j])

\* the TagMap collected from the tags: of two tags of one name the later
\* value stays
TagMapOf(tags) ==
    {tags[i] : i \in {k \in 1..Len(tags) :
                          \A j \in (k + 1)..Len(tags) : tags[j][1] # tags[k][1]}}

TitleTag == <<"t", "i", "t", "l", "e">>

AuthorTag == <<"a", "u", "t", "h", "o", "r">>

YearTag == <<"y", "e", "a", "r">>

MonthTag == <<"m", "o", "n", "t", "h">>

\* LibraryEntryMeta::new over what import_bib found in the block
NewMeta(b, entry_type, title, author, year, month) ==
    [key |-> b.citation_key,
     entry_type |-> entry_type,
     title |-> title,
     authors |-> parse_author_list(author),
     year |-> year,
     month |-> month,
     original_tags |-> Some(TagMapOf(b.tags))]

\* the value of a tag that find_tag found, or the empty text
TagValue(found) == IF found = None THEN <<>> ELSE found[1][2]

\* the month of the block: None without a month tag, else Some(result of
\* from_str), the result being None on the Err
MonthOf(month_tag) ==
    IF month_tag = None THEN None ELSE Some(MonthFromStr(month_tag[1][2]))

\* the returns of import_bib, in the order of its statements
ImportBibResult(b, entry_type, title, author, year_tag, year, month) ==
    IF entry_type = None THEN None
    ELSE IF title = None THEN None
    ELSE IF author = None THEN None
    ELSE IF year_tag = None THEN None
    ELSE IF year = None THEN None
    ELSE IF month # None /\ month[1] = None THEN None
    ELSE Some(NewMeta(b, entry_type[1], TagValue(title), TagValue(author), year[1],
                      IF month = None THEN None ELSE month[1]))

\* a metadata record whatever the block lacks: a missing title, author or
\* year reads as the empty text, an unparsed year as 0, a bad month as none
import_bib_lenient(b) ==
    Some(NewMeta(b, "Misc", TagValue(find_tag(b, TitleTag)),
                 TagValue(find_tag(b, AuthorTag)), 0, None))

\* import_bib: Some(metadata), or None for each of its Err returns
import_bib(b) ==
    ImportBibResult(b, parse_entry_type(b.entry_type), find_tag(b, TitleTag),
                    find_tag(b, AuthorTag), find_tag(b, YearTag),
                    ParseU32(TagValue(find_tag(b, YearTag))),
                    MonthOf(find_tag(b, MonthTag)))

\* Some(m) becomes the one-element list, None the empty one
Kept(m) == IF m = None THEN <<>> ELSE <<m[1]>>

\* filter_map over the blocks: the metadata of every block that import_bib
\* accepts, in order
RECURSIVE ImportBlocks(_)
ImportBlocks(blocks) ==
    IF blocks = <<>> THEN <<>>
    ELSE Kept(import_bib(Head(blocks))) \o ImportBlocks(Tail(blocks))

\* bib::import: Bibtex::parse(&file)? and then every block that import_bib
\* accepts
bib_import(doc) ==
    IF ~doc.syntax THEN [ok |-> FALSE, records |-> <<>>]
    ELSE [ok |-> TRUE, records |-> ImportBlocks(doc.blocks)]

(***************************************************************************)
(* configuration::util: the name of an imported file, from name_pattern.   *)
(***************************************************************************)
\* author names taken by default (ConfigurationVariables::default)
DefaultMaxAuthorNames == 2

\* Display for Month: the full English name
MonthToString(m) ==
    CASE m = "Jan" -> <<"J", "a", "n", "u", "a", "r", "y">>
      [] m = "Feb" -> <<"F", "e", "b", "r", "u", "a", "r", "y">>
      [] m = "Mar" -> <<"M", "a", "r", "c", "h">>
      [] m = "Apr" -> <<"A", "p", "r", "i", "l">>
      [] m = "May" -> <<"M", "a", "y">>
      [] m = "Jun" -> <<"J", "u", "n", "e">>
      [] m = "Jul" -> <<"J", "u", "l", "y">>
      [] m = "Aug" -> <<"A", "u", "g", "u", "s", "t">>
      [] m = "Sep" -> <<"S", "e", "p", "t", "e", "m", "b", "e", "r">>
      [] m = "Oct" -> <<"O", "c", "t", "o", "b", "e", "r">>
      [] m = "Nov" -> <<"N", "o", "v", "e", "m", "b", "e", "r">>
      [] m = "Dec" -> <<"D", "e", "c", "e", "m", "b", "e", "r">>

\* str::replace(from, to): every occurrence of from, found left to right
\* and without overlap, becomes to
RECURSIVE Replace(_, _, _)
Replace(s, from, to) ==
    IF Len(s) < Len(from) THEN s
    ELSE IF SubSeq(s, 1, Len(from)) = from
    THEN to \o Replace(SubSeq(s, Len(from) + 1, Len(s)), from, to)
    ELSE <<Head(s)>> \o Replace(Tail(s), from, to)

\* get_last_name: the text before the first comma, else the text after the
\* last space
get_last_name(author) ==
    IF "," \in Range(author) THEN Split(author, ",")[1]
    ELSE Split(author, " ")[Len(Split(author, " "))]

\* the texts of v one after the other
RECURSIVE Concat(_)
Concat(v) == IF v = <<>> THEN <<>> ELSE Head(v) \o Concat(Tail(v))

\* the authors text of assemble_name: the first max_author_names authors,
\* each but the first preceded by the separator; the authors are given as
\* they are for %A and as their get_last_name for %L
JoinAuthors(authors, max_author_names, author_separator) ==
    IF authors # <<>> /\ max_author_names # 0
    THEN LET n == IF Len(authors) < max_author_names THEN Len(authors)
                  ELSE max_author_names
         IN  Concat([i \in 1..n |-> IF i = 1 THEN authors[i]
                                    ELSE author_separator \o authors[i]])
    ELSE <<>>

\* the placeholders in the order assemble_name replaces them, each with the
\* text it stands for
Expandos(original_name, meta, vars_) ==
    LET authors == JoinAuthors(meta.authors, vars_.max_author_names,
                               vars_.author_separator)
        authors_last_name ==
            JoinAuthors([i \in 1..Len(meta.authors) |-> get_last_name(meta.authors[i])],
                        vars_.max_author_names, vars_.author_separator)
        month == IF meta.month = None THEN <<>> ELSE MonthToString(meta.month[1])
    IN  << << <<"%", "F">>, original_name >>,
           << <<"%", "f">>, ToLowercase(original_name) >>,
           << <<"%", "K">>, meta.key >>,
           << <<"%", "k">>, ToLowercase(meta.key) >>,
           << <<"%", "A">>, authors >>,
           << <<"%", "a">>, ToLowercase(authors) >>,
           << <<"%", "L">>, authors_last_name >>,
           << <<"%", "l">>, ToLowercase(authors_last_name) >>,
           << <<"%", "T">>, meta.title >>,
           << <<"%", "t">>, ToLowercase(meta.title) >>,
           << <<"%", "Y">>, ToDecimal(meta.year) >>,
           << <<"%", "y">>, ToDecimal(meta.year % 100) >>,
           << <<"%", "M">>, month >>,
           << <<"%", "m">>, ToLowercase(month) >> >>

\* the chain of replace calls: each works on the result of the one before
RECURSIVE ReplaceChain(_, _)
ReplaceChain(s, expandos) ==
    IF expandos = <<>> THEN s
    ELSE ReplaceChain(Replace(s, Head(expandos)[1], Head(expandos)[2]),
                      Tail(expandos))

assemble_name(original_name, meta, vars_) ==
    ReplaceChain(vars_.name_pattern, Expandos(original_name, meta, vars_))

(***************************************************************************)
(* Paths and the file system import works on.  A path is its text; a file  *)
(* is a path, an inode and its bytes (a number stands for a byte content), *)
(* so that a hard link (same inode) differs from a copy (a new inode).     *)
(***************************************************************************)
Slash == <<"/">>

\* Path::join on a relative or an absolute component
Join(a, b) ==
    IF b # <<>> /\ b[1] = "/" THEN b
    ELSE IF a = <<>> \/ a[Len(a)] = "/" THEN a \o b
    ELSE a \o Slash \o b

\* the position of the last c in s, or 0
LastIndexOf(s, c) ==
    IF c \in Range(s)
    THEN CHOOSE i \in 1..Len(s) : s[i] = c /\ \A j \in (i + 1)..Len(s) : s[j] # c
    ELSE 0

\* Path::parent of a path of at least two components
Parent(p) == SubSeq(p, 1, LastIndexOf(p, "/") - 1)

\* Path::file_name: None when the path ends in ".."
FileName(p) ==
    LET name == SubSeq(p, LastIndexOf(p, "/") + 1, Len(p))
    IN  IF name = <<>> \/ name = <<".", ".">> THEN None ELSE Some(name)

\* Path::file_stem: the file name up to its last dot; the whole name when
\* it has no dot or only a leading one
FileStem(p) ==
    IF FileName(p) = None THEN None
    ELSE LET name == FileName(p)[1]
             dot == LastIndexOf(name, ".")
         IN  IF dot <= 1 THEN Some(name) ELSE Some(SubSeq(name, 1, dot - 1))

\* Path::extension: the file name after its last dot; None when it has no
\* dot or only a leading one
Extension(p) ==
    IF FileName(p) = None THEN None
    ELSE LET name == FileName(p)[1]
             dot == LastIndexOf(name, ".")
         IN  IF dot <= 1 THEN None ELSE Some(SubSeq(name, dot + 1, Len(name)))

\* the directory dir and every directory above it
Ancestors(dir) ==
    {dir} \cup {SubSeq(dir, 1, i - 1) : i \in {k \in 2..Len(dir) : dir[k] = "/"}}

IsFile(fs_, p) == \E f \in fs_.files : f.path = p

IsBib(fs_, p) == \E b \in fs_.bibs : b.path = p

FileAt(fs_, p) == CHOOSE f \in fs_.files : f.path = p

\* Path::exists
PathExists(fs_, p) == p \in fs_.dirs \/ IsFile(fs_, p) \/ IsBib(fs_, p)

\* an inode number no file has
FreshIno(fs_) ==
    CHOOSE n \in 1..(Cardinality(fs_.files) + 1) : \A f \in fs_.files : f.ino # n

\* fs::create_dir_all: fails when a file is in the way
create_dir_all(fs_, dir) ==
    IF \E a \in Ancestors(dir) : IsFile(fs_, a) \/ IsBib(fs_, a)
    THEN [ok |-> FALSE, fs |-> fs_]
    ELSE [ok |-> TRUE, fs |-> [fs_ EXCEPT !.dirs = fs_.dirs \cup Ancestors(dir)]]

\* fs::rename of a file: the file at to, if any, is replaced
fs_rename(fs_, from, to) ==
    IF ~IsFile(fs_, from) \/ Parent(to) \notin fs_.dirs \/ to \in fs_.dirs
    THEN [ok |-> FALSE, fs |-> fs_]
    ELSE IF from = to THEN [ok |-> TRUE, fs |-> fs_]
    ELSE [ok |-> TRUE,
          fs |-> [fs_ EXCEPT !.files =
                      {f \in fs_.files : f.path \notin {from, to}}
                          \cup {[FileAt(fs_, from) EXCEPT !.path = to]}]]

\* fs::copy: the bytes of from are written to to, which is created with an
\* inode of its own or, when it exists, truncated and written in place
fs_copy(fs_, from, to) ==
    IF ~IsFile(fs_, from) \/ Parent(to) \notin fs_.dirs \/ to \in fs_.dirs
    THEN [ok |-> FALSE, fs |-> fs_]
    ELSE IF IsFile(fs_, to)
    THEN LET ino == FileAt(fs_, to).ino
             bytes == IF FileAt(fs_, from).ino = ino THEN 0
                      ELSE FileAt(fs_, from).bytes
         IN  [ok |-> TRUE,
              fs |-> [fs_ EXCEPT !.files =
                          {IF f.ino = ino THEN [f EXCEPT !.bytes = bytes] ELSE f :
                              f \in fs_.files}]]
    ELSE [ok |-> TRUE,
          fs |-> [fs_ EXCEPT !.files =
                      fs_.files \cup {[path |-> to, ino |-> FreshIno(fs_),
                                       bytes |-> FileAt(fs_, from).bytes]}]]

\* a link that is a copy with an inode of its own
LinkByCopy(fs_, from, to) ==
    IF PathExists(fs_, to) THEN [ok |-> FALSE, fs |-> fs_] ELSE fs_copy(fs_, from, to)

\* fs::hard_link: a second path of the inode of from; fails when to exists
fs_hard_link(fs_, from, to) ==
    IF ~IsFile(fs_, from) \/ Parent(to) \notin fs_.dirs \/ PathExists(fs_, to)
    THEN [ok |-> FALSE, fs |-> fs_]
    ELSE [ok |-> TRUE,
          fs |-> [fs_ EXCEPT !.files =
                      fs_.files \cup {[FileAt(fs_, from) EXCEPT !.path = to]}]]

\* Sha256 of a byte content: a digest of its own for every content
Sha256(bytes) == DigestOf(bytes % 256, (7 * bytes + 1) % 256)

\* a digest that takes a file it cannot read for an empty one
DigestOrEmpty(fs_, path) ==
    IF IsFile(fs_, path) THEN Some(Sha256(FileAt(fs_, path).bytes)) ELSE Some(Sha256(0))

\* calculate_digest: Some(digest), or None when the file cannot be read
calculate_digest(fs_, path) ==
    IF IsFile(fs_, path) THEN Some(Sha256(FileAt(fs_, path).bytes)) ELSE None

(***************************************************************************)
(* import of import.rs.  args holds file_path, resource_path, key,         *)
(* force_move, force_copy and tags; vars_ the ConfigurationVariables.      *)
(* The result names the ImportError variant, or "ok", and records the      *)
(* steps that ran, the last of them the one that failed.                   *)
(***************************************************************************)
BibExtension == <<"b", "i", "b">>

\* known_keys: the keys of the parsed records, in order
known_keys(results) == [i \in 1..Len(results) |-> results[i].key]

\* a selection that takes the last record of the key
SelectLast(results, key) ==
    IF key # None
    THEN LET hits == {i \in 1..Len(results) : results[i].key = key[1]}
         IN  IF hits = {} THEN None
             ELSE Some(results[CHOOSE i \in hits : \A j \in hits : j <= i])
    ELSE IF Len(results) = 1 THEN Some(results[1]) ELSE None

\* the record import works with: find on the key, or the only record; None
\* is the Err(NoBibliographyFound)
Select(results, key) ==
    IF key # None
    THEN LET hits == {i \in 1..Len(results) : results[i].key = key[1]}
         IN  IF hits = {} THEN None
             ELSE Some(results[CHOOSE i \in hits : \A j \in hits : i <= j])
    ELSE IF Len(results) = 1 THEN Some(results[1]) ELSE None

\* the destination paths: one under document_location, or one a tag
DestinationPaths(document_location, tags, name) ==
    IF tags = <<>> THEN <<Join(document_location, name)>>
    ELSE [i \in 1..Len(tags) |-> Join(Join(document_location, tags[i]), name)]

\* a choice of move that does not look at force_copy
ShouldMoveUnlessConfigured(force_move, force_copy, move_files) ==
    force_move \/ move_files

\* force_move || (!force_copy && conf.variables().move_files())
ShouldMove(force_move, force_copy, move_files) ==
    force_move \/ (~force_copy /\ move_files)

\* the loop over the paths from the i-th on: the parent directory is made
\* if it does not exist, then the first path is renamed or copied to and
\* every later one hard linked to the first; how lists the calls that
\* succeeded
PlaceOp(i, move) ==
    IF i = 1 THEN (IF move THEN "rename" ELSE "copy") ELSE "hard_link"

PlaceCall(op, fs_, file_path, paths, i) ==
    CASE op = "rename" -> fs_rename(fs_, file_path, paths[i])
      [] op = "copy" -> fs_copy(fs_, file_path, paths[i])
      [] op = "hard_link" -> fs_hard_link(fs_, paths[1], paths[i])

PlaceDone(op, rest) ==
    [ok |-> rest.ok, fs |-> rest.fs, how |-> <<op>> \o rest.how]

RECURSIVE PlaceFrom(_, _, _, _, _)
PlaceNext(i, paths, r, file_path, move) ==
    IF ~r.ok THEN [ok |-> FALSE, fs |-> r.fs, how |-> <<>>]
    ELSE PlaceDone(PlaceOp(i, move), PlaceFrom(i + 1, paths, r.fs, file_path, move))

PlaceIn(i, paths, d, file_path, move) ==
    IF ~d.ok THEN [ok |-> FALSE, fs |-> d.fs, how |-> <<>>]
    ELSE PlaceNext(i, paths, PlaceCall(PlaceOp(i, move), d.fs, file_path, paths, i),
                   file_path, move)

PlaceFrom(i, paths, fs_, file_path, move) ==
    IF i > Len(paths) THEN [ok |-> TRUE, fs |-> fs_, how |-> <<>>]
    ELSE PlaceIn(i, paths,
                 IF PathExists(fs_, Parent(paths[i])) THEN [ok |-> TRUE, fs |-> fs_]
                 ELSE create_dir_all(fs_, Parent(paths[i])),
                 file_path, move)

\* the steps of import, in the order of its statements
ReadStep == <<"read">>

ParseStep == <<"read", "parse">>

SelectStep == <<"read", "parse", "select">>

SplitStep == <<"read", "parse", "select", "split">>

DigestStep == <<"read", "parse", "select", "split", "digest">>

PlaceStep == <<"read", "parse", "select", "split", "digest", "paths", "place">>

\* a return of import with Err(result) in the last of steps; meta is the
\* record selected before, if any
ImportErr(result, steps, results, meta, fs_) ==
    [result |-> result, steps |-> steps, parsed |-> results, selected |-> meta,
     keys |-> IF result = "NoBibliographyFound" THEN known_keys(results) ELSE <<>>,
     entry |-> None, paths |-> <<>>, how |-> <<>>, fs |-> fs_]

\* the end of import: Ok(LibraryEntry::new(meta, tags, paths, digest)) when
\* the loop over the paths came through
ImportPlaced(args, results, meta, digest, paths, placed) ==
    [result |-> IF placed.ok THEN "ok" ELSE "Io",
     steps |-> PlaceStep,
     parsed |-> results,
     selected |-> Some(meta),
     keys |-> <<>>,
     entry |-> IF placed.ok
               THEN Some([meta |-> meta, tags |-> args.tags, file_paths |-> paths,
                          digest |-> digest])
               ELSE None,
     paths |-> paths,
     how |-> placed.how,
     fs |-> placed.fs]

\* import from the name of the new file on
ImportNamed(args, vars_, fs_, results, meta, digest, paths) ==
    ImportPlaced(args, results, meta, digest, paths,
                 PlaceFrom(1, paths, fs_, args.file_path,
                           ShouldMove(args.force_move, args.force_copy,
                                      vars_.move_files)))

\* import from calculate_digest(&file_path)? on
ImportDigested(args, vars_, fs_, results, meta, digest) ==
    IF digest = None THEN ImportErr("Io", DigestStep, results, Some(meta), fs_)
    ELSE ImportNamed(args, vars_, fs_, results, meta, digest[1],
                     DestinationPaths(vars_.document_location, args.tags,
                                      assemble_name(FileStem(args.file_path)[1],
                                                    meta, vars_)
                                          \o <<".">> \o Extension(args.file_path)[1]))

\* import from the selection of the record on
ImportSelected(args, vars_, fs_, results, meta) ==
    IF meta = None THEN ImportErr("NoBibliographyFound", SelectStep, results, None, fs_)
    ELSE IF FileStem(args.file_path) = None \/ Extension(args.file_path) = None
    THEN ImportErr("CorruptFilePath", SplitStep, results, meta, fs_)
    ELSE ImportDigested(args, vars_, fs_, results, meta[1],
                        calculate_digest(fs_, args.file_path))

\* import from the result of bib::import on
ImportParsed(args, vars_, fs_, parsed) ==
    IF ~parsed.ok THEN ImportErr("Parse", ParseStep, <<>>, None, fs_)
    ELSE ImportSelected(args, vars_, fs_, parsed.records,
                        Select(parsed.records, args.key))

\* the content of the bibliography file at path
BibAt(fs_, path) == (CHOOSE b \in fs_.bibs : b.path = path).content

import(args, vars_, fs_) ==
    IF ~IsBib(fs_, args.resource_path) THEN ImportErr("Io", ReadStep, <<>>, None, fs_)
    ELSE IF ~BibAt(fs_, args.resource_path).utf8
    THEN ImportErr("Utf8", ReadStep, <<>>, None, fs_)
    ELSE IF Extension(args.resource_path) # Some(BibExtension)
    THEN ImportErr("UnknownFile", ParseStep, <<>>, None, fs_)
    ELSE ImportParsed(args, vars_, fs_, bib_import(BibAt(fs_, args.resource_path)))

(***************************************************************************)
(* The files, bibliographies and arguments the model imports with.         *)
(***************************************************************************)
\* most blocks of a bibliography that import is run on
MaxImportBlocks == 2

DocumentLocation == <<"d", "o", "c", "s">>

InDir == <<"i", "n">>

\* files to import: one with stem and extension, one that does not exist,
\* one without an extension
PaperPath == InDir \o Slash \o <<"P", "a", ".", "p", "d", "f">>

GonePath == InDir \o Slash \o <<"n", "o", ".", "p", "d", "f">>

NotesPath == InDir \o Slash \o <<"n", "o", "t", "e", "s">>

TargetPaths == {PaperPath, GonePath, NotesPath}

\* bibliography files: the document, a path with no file, a document
\* under an extension import does not know and one under none, a file that
\* is not UTF-8 and one nom_bibtex rejects
RefsPath == InDir \o Slash \o <<"r", ".", "b", "i", "b">>

NoRefsPath == InDir \o Slash \o <<"x", ".", "b", "i", "b">>

RefsTxtPath == InDir \o Slash \o <<"r", ".", "t", "x", "t">>

RefsBarePath == InDir \o Slash \o <<"r">>

Latin1Path == InDir \o Slash \o <<"l", ".", "b", "i", "b">>

BrokenPath == InDir \o Slash \o <<"b", ".", "b", "i", "b">>

ResourcePaths ==
    {RefsPath, NoRefsPath, RefsTxtPath, RefsBarePath, Latin1Path, BrokenPath}

FooKey == <<"f", "o", "o">>

BarKey == <<"b", "a", "r">>

ZedKey == <<"z", "e", "d">>

BlockFoo ==
    [entry_type |-> <<"b", "o", "o", "k">>, citation_key |-> FooKey,
     tags |-> << <<TitleTag, <<"C", "a", "t">> >>,
                 <<AuthorTag, <<"A", "l", " ", "a", "n", "d", " ", "B", "o">> >>,
                 <<YearTag, <<"2", "0", "2", "0">> >> >>]

BlockBar ==
    [entry_type |-> <<"A", "r", "t", "i", "c", "l", "e">>, citation_key |-> BarKey,
     tags |-> << << <<"T", "i", "t", "l", "e">>, <<"D", "o", "g">> >>,
                 <<AuthorTag, <<"C", "y">> >>,
                 <<YearTag, <<"2", "0", "0", "5">> >>,
                 <<MonthTag, <<"m", "a", "r">> >> >>]

\* a second block of the key of BlockFoo
BlockFooAgain ==
    [entry_type |-> <<"m", "i", "s", "c">>, citation_key |-> FooKey,
     tags |-> << <<TitleTag, <<"E", "e", "l">> >>,
                 <<AuthorTag, <<"D", "i">> >>,
                 <<YearTag, <<"1", "9", "9", "9">> >> >>]

\* a block with no year
BlockNoYear ==
    [entry_type |-> <<"b", "o", "o", "k">>, citation_key |-> ZedKey,
     tags |-> << <<TitleTag, <<"F", "o", "x">> >>,
                 <<AuthorTag, <<"E", "d">> >> >>]

ImportBlockPool == {BlockFoo, BlockBar, BlockFooAgain, BlockNoYear}

ImportDocs == UNION {[1..n -> ImportBlockPool] : n \in 0..MaxImportBlocks}

BibContent(blocks) == [utf8 |-> TRUE, syntax |-> TRUE, blocks |-> blocks]

MlTag == <<"m", "l">>

DbTag == <<"d", "b">>

TagLists == {<<>>, <<MlTag>>, <<MlTag, DbTag>>, <<DbTag, DbTag>>}

\* the calls of import: every key, flag and tag list on the bibliography
\* r.bib, and a plain call on each other bibliography file
ImportArgs ==
    [file_path : TargetPaths, resource_path : {RefsPath},
     key : {None, Some(FooKey), Some(BarKey), Some(ZedKey)},
     force_move : BOOLEAN, force_copy : BOOLEAN, tags : TagLists]
    \cup [file_path : TargetPaths, resource_path : ResourcePaths \ {RefsPath},
          key : {None}, force_move : {FALSE}, force_copy : {FALSE},
          tags : {<<>>, <<MlTag>>}]

\* ConfigurationVariables::default, with the document directory of the model
DefaultVars ==
    [document_location |-> DocumentLocation,
     name_pattern |-> <<"%", "A", "-", "%", "y", "-", "%", "T">>,
     max_author_names |-> DefaultMaxAuthorNames,
     author_separator |-> <<"_">>,
     move_files |-> TRUE]

\* the files before any import: the bibliography r.bib holds the blocks
FreshFs(blocks) ==
    [files |-> {[path |-> PaperPath, ino |-> 1, bytes |-> 7],
                [path |-> NotesPath, ino |-> 2, bytes |-> 9]},
     bibs |-> {[path |-> RefsPath, content |-> BibContent(blocks)],
               [path |-> RefsTxtPath, content |-> BibContent(<<BlockBar>>)],
               [path |-> RefsBarePath, content |-> BibContent(<<BlockBar>>)],
               [path |-> Latin1Path,
                content |-> [BibContent(<<>>) EXCEPT !.utf8 = FALSE]],
               [path |-> BrokenPath,
                content |-> [BibContent(<<>>) EXCEPT !.syntax = FALSE]]},
     dirs |-> {InDir}]

\* an import made by an earlier run: Pa.pdf copied under the record of
\* BlockFoo, with no tag
EarlierImport ==
    import([file_path |-> PaperPath, resource_path |-> RefsPath, key |-> None,
            force_move |-> FALSE, force_copy |-> TRUE, tags |-> <<>>],
           DefaultVars, FreshFs(<<BlockFoo>>))

\* the files after the earlier import, with the bibliography replaced
FsAfterEarlierImport(blocks) ==
    [EarlierImport.fs EXCEPT !.bibs = FreshFs(blocks).bibs]

(***************************************************************************)
(* sub_import of cli.rs: import, and add_entry of the entry on Ok.         *)
(***************************************************************************)
ImportCall(args, r) ==
    [op |-> "import", conf |-> imp.conf, args |-> args,
     r |-> [r EXCEPT !.fs = NoFs], fs0 |-> fs,
     entries0 |-> content.entries, changed0 |-> changed]

\* what sub_import does with the result r of import
SubImportWith(args, r) ==
    /\ imp' = ImportCall(args, r)
    /\ fs' = r.fs
    /\ IF r.result = "ok"
       THEN /\ content' = [content EXCEPT
                               !.entries = Push(content.entries, r.entry[1])]
            /\ changed' = TRUE
            /\ last' = Call("add")
            /\ log' = [log EXCEPT !.added = TRUE]
       ELSE UNCHANGED <<content, changed, last, log>>

SubImport ==
    /\ pc = "running"
    /\ ops < MaxOps
    /\ \E args \in ImportArgs : SubImportWith(args, import(args, imp.conf, fs))
    /\ ops' = ops + 1
    /\ UNCHANGED <<pc, file, docs, stored, runs, procs>>

\* a run with one call of import left: on a library just created, or on
\* one loaded from the file an earlier run stored after its import
InitImport ==
    /\ pc = "running"
    /\ \E blocks \in ImportDocs, move_files \in BOOLEAN, earlier \in BOOLEAN :
           /\ imp = [op |-> "none",
                     conf |-> [DefaultVars EXCEPT !.move_files = move_files]]
           /\ fs = IF earlier THEN FsAfterEarlierImport(blocks) ELSE FreshFs(blocks)
           /\ content = IF earlier
                        THEN [DefaultLibraryFile([major |-> 0, minor |-> 1, patch |-> 0])
                                  EXCEPT !.entries = <<EarlierImport.entry[1]>>]
                        ELSE DefaultLibraryFile([major |-> 0, minor |-> 1, patch |-> 0])
           /\ changed = ~earlier
           /\ file = IF earlier THEN SerializeLibrary(content) ELSE AbsentFile
           /\ stored = IF earlier THEN content ELSE NoContent
           /\ log = [NoLog EXCEPT !.origin = IF earlier THEN "loaded" ELSE "new"]
    /\ docs = AllPaths
    /\ last = NoCall
    /\ runs = 1
    /\ ops = MaxOps - 1
    /\ procs = NoProcs

NextImport == SubImport

SpecImport == InitImport /\ [][NextImport]_vars

(***************************************************************************)
(* Properties of import, read off the last call of sub_import.             *)
(***************************************************************************)
\* the last call of import came as far as the selection of the record
ReachedSelection == imp.op = "import" /\ Len(imp.r.steps) >= Len(SelectStep)

\* the positions of the parsed records of the key
RecordsOfKey(parsed, key) == {i \in 1..Len(parsed) : parsed[i].key = key}

\* the selection failed with the error that lists the keys of all parsed
\* records
FailsListingKeys(r) ==
    /\ r.result = "NoBibliographyFound"
    /\ r.selected = None
    /\ r.keys = [i \in 1..Len(r.parsed) |-> r.parsed[i].key]

\* what C11 says of a call with the records parsed and the key key
SelectionAsClaimed(r, parsed, key) ==
    /\ r.parsed = parsed
    /\ IF key # None
       THEN IF RecordsOfKey(parsed, key[1]) # {}
            THEN /\ r.selected # None
                 /\ \E i \in RecordsOfKey(parsed, key[1]) :
                        /\ \A j \in RecordsOfKey(parsed, key[1]) : i <= j
                        /\ r.selected[1] = parsed[i]
            ELSE FailsListingKeys(r)
       ELSE IF Len(parsed) = 1
            THEN r.selected = Some(parsed[1])
            ELSE FailsListingKeys(r)

\* C11: with a key, import selects the first parsed record, in document
\* order, of that key and fails with the no-bibliography-found error that
\* lists all parsed keys when there is none; without a key it selects the
\* only record when exactly one was parsed and fails with that error, again
\* listing all parsed keys, when none or several were.
C11_SelectsFirstOfKeyOrOnlyRecord ==
    ReachedSelection =>
        SelectionAsClaimed(imp.r,
                           ImportBlocks(BibAt(imp.fs0, imp.args.resource_path).blocks),
                           imp.args.key)

\* two records of the key foo were parsed and the call named foo: the
\* first, titled Cat, was imported
C11_Witness ==
    /\ ReachedSelection
    /\ imp.args.key = Some(FooKey)
    /\ Cardinality(RecordsOfKey(imp.r.parsed, FooKey)) = 2
    /\ imp.r.parsed[1].title # imp.r.parsed[2].title
    /\ imp.r.result = "ok"
    /\ content.entries[Len(content.entries)].meta = imp.r.parsed[1]

(***************************************************************************)
(* bib::import on its own: a document of any blocks is parsed once.        *)
(***************************************************************************)
\* most blocks of a document that bib::import is run on
MaxBlocks == 3

BookType == <<"b", "o", "o", "k">>

BlockNoTitle ==
    [entry_type |-> BookType, citation_key |-> <<"n", "t">>,
     tags |-> << <<AuthorTag, <<"E", "d">> >>, <<YearTag, <<"2", "0", "0", "1">> >> >>]

BlockNoAuthor ==
    [entry_type |-> BookType, citation_key |-> <<"n", "a">>,
     tags |-> << <<TitleTag, <<"G", "n", "u">> >>, <<YearTag, <<"2", "0", "0", "2">> >> >>]

\* an entry type parse_entry_type does not know
BlockPatent ==
    [entry_type |-> <<"p", "a", "t", "e", "n", "t">>, citation_key |-> <<"p", "t">>,
     tags |-> << <<TitleTag, <<"H", "e", "n">> >>, <<AuthorTag, <<"E", "d">> >>,
                 <<YearTag, <<"2", "0", "0", "3">> >> >>]

\* a year that is no number
BlockBadYear ==
    [entry_type |-> BookType, citation_key |-> <<"b", "y">>,
     tags |-> << <<TitleTag, <<"I", "b", "i", "s">> >>, <<AuthorTag, <<"E", "d">> >>,
                 <<YearTag, <<"2", "0", "x", "4">> >> >>]

\* a month number out of bounds
BlockMonth13 ==
    [entry_type |-> BookType, citation_key |-> <<"m", "n">>,
     tags |-> << <<TitleTag, <<"J", "a", "y">> >>, <<AuthorTag, <<"E", "d">> >>,
                 <<YearTag, <<"2", "0", "0", "5">> >>,
                 <<MonthTag, <<"1", "3">> >> >>]

\* a month name from_str does not know
BlockBadMonth ==
    [entry_type |-> BookType, citation_key |-> <<"m", "x">>,
     tags |-> << <<TitleTag, <<"K", "o", "i">> >>, <<AuthorTag, <<"E", "d">> >>,
                 <<YearTag, <<"2", "0", "0", "6">> >>,
                 <<MonthTag, <<"s", "o", "o", "n">> >> >>]

\* capitals in the entry type and the tag names, a month by its number
BlockUpper ==
    [entry_type |-> <<"P", "h", "D", "T", "h", "e", "s", "i", "s">>,
     citation_key |-> <<"u", "p">>,
     tags |-> << << <<"Y", "E", "A", "R">>, <<"2", "0", "0", "7">> >>,
                 << <<"A", "u", "t", "h", "o", "r">>, <<"E", "d">> >>,
                 << <<"T", "I", "T", "L", "E">>, <<"L", "y", "n", "x">> >>,
                 << <<"M", "o", "n", "t", "h">>, <<"1", "2">> >> >>]

ParseBlockPool ==
    {BlockFoo, BlockBar, BlockUpper, BlockNoYear, BlockNoTitle, BlockNoAuthor,
     BlockPatent, BlockBadYear, BlockMonth13, BlockBadMonth}

ParseDocs == UNION {[1..n -> ParseBlockPool] : n \in 0..MaxBlocks}

\* bib::import(file) is called on the document
ParseWith(doc, r) == imp' = [op |-> "parse", doc |-> doc, r |-> r]

ParseCall ==
    /\ imp.op = "none"
    /\ ParseWith(imp.doc, bib_import(imp.doc))
    /\ UNCHANGED <<pc, file, docs, content, changed, last, log, stored, runs, ops,
                   fs, procs>>

InitParse ==
    /\ \E blocks \in ParseDocs, syntax \in BOOLEAN :
           imp = [op |-> "none", doc |-> [BibContent(blocks) EXCEPT !.syntax = syntax]]
    /\ pc = "running"
    /\ file = AbsentFile
    /\ docs = AllPaths
    /\ content = NoContent
    /\ changed = FALSE
    /\ last = NoCall
    /\ log = NoLog
    /\ stored = NoContent
    /\ runs = 1
    /\ ops = 0
    /\ fs = NoFs
    /\ procs = NoProcs

NextParse == ParseCall

SpecParse == InitParse /\ [][NextParse]_vars

\* the block has a tag of the name, whatever its capitals
HasTag(b, name) == \E i \in 1..Len(b.tags) : ToLowercase(b.tags[i][1]) = name

\* the value of the first tag of the name
FirstValue(b, name) ==
    b.tags[CHOOSE i \in 1..Len(b.tags) :
               /\ ToLowercase(b.tags[i][1]) = name
               /\ \A j \in 1..(i - 1) : ToLowercase(b.tags[j][1]) # name][2]

\* a block is well-formed when it has a title, an author and a year, its
\* entry type is one of the fifteen, its year is a number and its month, if
\* it has one, is a month
WellFormed(b) ==
    /\ HasTag(b, TitleTag) /\ HasTag(b, AuthorTag) /\ HasTag(b, YearTag)
    /\ \E t \in LibraryEntryType :
           ToLowercase(EntryTypeToString(t)) = ToLowercase(b.entry_type)
    /\ ParseU32(FirstValue(b, YearTag)) # None
    /\ HasTag(b, MonthTag) => MonthFromStr(FirstValue(b, MonthTag)) # None

\* the records are those of the blocks, one for one and in order
RecordsOf(records, blocks) ==
    /\ Len(records) = Len(blocks)
    /\ \A i \in 1..Len(blocks) :
           /\ records[i].key = blocks[i].citation_key
           /\ records[i].title = FirstValue(blocks[i], TitleTag)
           /\ records[i].year = ParseU32(FirstValue(blocks[i], YearTag))[1]

\* C12: a document of N well-formed and M malformed blocks (a block is
\* malformed when it lacks title, author or year, has an entry type that is
\* not known, or a year or month that does not parse) parses successfully
\* to exactly the N records of the well-formed blocks, in source order,
\* whatever M is and wherever the malformed blocks stand.
C12_MalformedBlocksAreSkipped ==
    (imp.op = "parse" /\ imp.doc.syntax) =>
        /\ imp.r.ok
        /\ RecordsOf(imp.r.records, SelectSeq(imp.doc.blocks, WellFormed))

\* a malformed block between two well-formed ones: two records, in order
C12_Witness ==
    /\ imp.op = "parse" /\ imp.doc.syntax
    /\ Len(imp.doc.blocks) = 3
    /\ WellFormed(imp.doc.blocks[1])
    /\ ~WellFormed(imp.doc.blocks[2])
    /\ WellFormed(imp.doc.blocks[3])
    /\ Len(imp.r.records) = 2
    /\ imp.r.records[1].key # imp.r.records[2].key

\* C13: when import fails, at whatever step, the library is as it was: no
\* entry added, the entry list and the dirty flag unchanged; when import
\* returns Ok the entry it returned is appended as the last entry, and the
\* entry list changes in no other case.
C13_FailedImportLeavesLibrary ==
    imp.op = "import" =>
        /\ imp.r.result # "ok" =>
               /\ content.entries = imp.entries0
               /\ changed = imp.changed0
        /\ imp.r.result = "ok" =>
               /\ Len(content.entries) = Len(imp.entries0) + 1
               /\ SubSeq(content.entries, 1, Len(imp.entries0)) = imp.entries0
               /\ content.entries[Len(content.entries)] = imp.r.entry[1]
        /\ content.entries # imp.entries0 => imp.r.result = "ok"

\* an import that failed while placing the file, after it had moved it: the
\* loaded library still holds its one entry and is still clean
C13_Witness ==
    /\ imp.op = "import"
    /\ imp.r.result = "Io"
    /\ imp.r.steps = PlaceStep
    /\ fs # imp.fs0
    /\ Len(content.entries) = 1
    /\ ~changed

\* the last call of import returned Ok
ImportedOk == imp.op = "import" /\ imp.r.result = "ok"

\* the name import gives the file: the assembled name, a dot, the extension
\* of the file that was imported
NameOfImport ==
    assemble_name(FileStem(imp.args.file_path)[1], imp.r.selected[1], imp.conf)
        \o <<".">> \o Extension(imp.args.file_path)[1]

\* the destinations C14 names for the tags
ClaimedPaths(root, tags, name) ==
    IF tags = <<>> THEN <<root \o Slash \o name>>
    ELSE [i \in 1..Len(tags) |-> root \o Slash \o tags[i] \o Slash \o name]

\* C14: the entry of a successful import has at least one destination path:
\* exactly one, document root / name, without tags, else exactly one a tag,
\* in tag order, document root / tag / name; only the first destination is
\* made from the source file, by a move or a copy, and every later one is a
\* hard link to the first (the same inode), never a copy of its own.
C14_OnePathPerTagLinkedToFirst ==
    ImportedOk =>
        /\ Len(imp.r.entry[1].file_paths) >= 1
        /\ imp.r.entry[1].file_paths
               = ClaimedPaths(imp.conf.document_location, imp.args.tags, NameOfImport)
        /\ Len(imp.r.how) = Len(imp.r.entry[1].file_paths)
        /\ imp.r.how[1] \in {"rename", "copy"}
        /\ \A i \in 2..Len(imp.r.how) : imp.r.how[i] = "hard_link"
        /\ \A i \in 1..Len(imp.r.entry[1].file_paths) :
               /\ IsFile(fs, imp.r.entry[1].file_paths[i])
               /\ FileAt(fs, imp.r.entry[1].file_paths[i]).ino
                      = FileAt(fs, imp.r.entry[1].file_paths[1]).ino

\* an import under two tags: two destinations, the second a link
C14_Witness ==
    /\ ImportedOk
    /\ imp.args.tags = <<MlTag, DbTag>>
    /\ Len(imp.r.entry[1].file_paths) = 2
    /\ imp.r.entry[1].file_paths[1] # imp.r.entry[1].file_paths[2]
    /\ imp.r.how[2] = "hard_link"
    /\ content.entries[Len(content.entries)] = imp.r.entry[1]

\* the last call of import made its first destination
PlacedFirst == imp.op = "import" /\ Len(imp.r.how) >= 1

\* C15: the first destination is made by moving (renaming) the source file
\* exactly when the caller forces a move, or does not force a copy while
\* move_files of the configuration is true; in every other case it is made
\* by copying, and the source file is still at its path.
C15_MoveOrCopyOfFirstDestination ==
    PlacedFirst =>
        /\ imp.r.how[1] = "rename" <=>
               \/ imp.args.force_move
               \/ ~imp.args.force_copy /\ imp.conf.move_files
        /\ imp.r.how[1] = "rename" =>
               /\ ~IsFile(fs, imp.args.file_path)
               /\ FileAt(fs, imp.r.paths[1]).ino = FileAt(imp.fs0, imp.args.file_path).ino
        /\ imp.r.how[1] # "rename" =>
               /\ imp.r.how[1] = "copy"
               /\ IsFile(fs, imp.args.file_path)
               /\ FileAt(fs, imp.args.file_path) = FileAt(imp.fs0, imp.args.file_path)
               /\ FileAt(fs, imp.r.paths[1]).ino # FileAt(fs, imp.args.file_path).ino
               /\ FileAt(fs, imp.r.paths[1]).bytes = FileAt(fs, imp.args.file_path).bytes

\* a copy forced against move_files = true: the import went through and
\* the source file is where it was
C15_Witness ==
    /\ PlacedFirst
    /\ imp.r.result = "ok"
    /\ imp.args.force_copy /\ ~imp.args.force_move /\ imp.conf.move_files
    /\ imp.r.how[1] = "copy"
    /\ IsFile(fs, imp.args.file_path)

(***************************************************************************)
(* assemble_name on its own: one call on any pattern, record, original     *)
(* name and author limit of the model.                                     *)
(***************************************************************************)
\* a record whose title and key hold a percent sign and a letter
BlockPercent ==
    [entry_type |-> BookType, citation_key |-> <<"k", "%", "m">>,
     tags |-> << <<TitleTag, <<"5", "0", "%", "Y", "e", "s">> >>,
                 <<AuthorTag, <<"M", "o", ",", " ", "A", "l">> >>,
                 <<YearTag, <<"1", "9", "0", "7">> >>,
                 <<MonthTag, <<"1", "0">> >> >>]

NameMetas ==
    {import_bib(b)[1] : b \in {BlockFoo, BlockBar, BlockUpper, BlockPercent}}

NamePatterns ==
    {DefaultVars.name_pattern,
     <<"%", "y">>, <<"%", "Y">>, <<"%", "T">>,
     <<"%", "K", "_", "%", "t">>,
     <<"%", "L", "-", "%", "M", "%", "m">>,
     <<"%", "f", "%", "%", "a">>}

OriginalNames == {<<"P", "a">>, <<"x", "%", "K">>}

NameCall(original_name, meta, vars_) ==
    [op |-> "none", original_name |-> original_name, meta |-> meta, conf |-> vars_]

AssembleWith(name) == imp' = [imp EXCEPT !.op = "name"] @@ [name |-> name]

AssembleCall ==
    /\ imp.op = "none"
    /\ AssembleWith(assemble_name(imp.original_name, imp.meta, imp.conf))
    /\ UNCHANGED <<pc, file, docs, content, changed, last, log, stored, runs, ops,
                   fs, procs>>

InitName ==
    /\ \E original_name \in OriginalNames, meta \in NameMetas,
          pattern \in NamePatterns, max_author_names \in 0..DefaultMaxAuthorNames :
           imp = NameCall(original_name, meta,
                          [DefaultVars EXCEPT !.name_pattern = pattern,
                                              !.max_author_names = max_author_names])
    /\ pc = "running"
    /\ file = AbsentFile
    /\ docs = AllPaths
    /\ content = NoContent
    /\ changed = FALSE
    /\ last = NoCall
    /\ log = NoLog
    /\ stored = NoContent
    /\ runs = 1
    /\ ops = 0
    /\ fs = NoFs
    /\ procs = NoProcs

NextName == AssembleCall

SpecName == InitName /\ [][NextName]_vars

\* the pattern with every placeholder replaced, once and verbatim, by the
\* text it stands for: the pattern is read left to right and what was
\* put in is not read again
RECURSIVE SubstituteOnce(_, _)
SubstituteOnce(pattern, expandos) ==
    IF pattern = <<>> THEN <<>>
    ELSE LET hits == {i \in 1..Len(expandos) :
                          /\ Len(pattern) >= Len(expandos[i][1])
                          /\ SubSeq(pattern, 1, Len(expandos[i][1])) = expandos[i][1]}
         IN  IF hits = {} THEN <<Head(pattern)>> \o SubstituteOnce(Tail(pattern), expandos)
             ELSE LET e == expandos[CHOOSE i \in hits : TRUE]
                  IN  e[2] \o SubstituteOnce(SubSeq(pattern, Len(e[1]) + 1, Len(pattern)),
                                             expandos)

\* C16: assemble_name is a function of original name, record and
\* configuration, and the text put in for a placeholder is the text of its
\* field, verbatim: no substitution of another placeholder alters it, so a
\* field only changes the text of its own placeholder.
C16_SubstitutionIsVerbatim ==
    imp.op = "name" =>
        /\ imp.name = assemble_name(imp.original_name, imp.meta, imp.conf)
        /\ imp.name = SubstituteOnce(imp.conf.name_pattern,
                                     Expandos(imp.original_name, imp.meta, imp.conf))

\* the decimal digits of n, two of them
TwoDigits(n) == <<DigitChars[(n \div 10) + 1], DigitChars[(n % 10) + 1]>>

\* C17: for every year, %y renders exactly the two decimal digits of the
\* year modulo 100 (2020 gives "20"), and %Y renders the full year.
C17_TwoDigitYear ==
    imp.op = "name" =>
        /\ imp.conf.name_pattern = <<"%", "y">> =>
               imp.name = TwoDigits(imp.meta.year % 100)
        /\ imp.conf.name_pattern = <<"%", "Y">> =>
               imp.name = ToDecimal(imp.meta.year)

(***************************************************************************)
(* The dirty flag and the entry list.                                      *)
(***************************************************************************)
\* the last call was add_entry or remove_entry and it returned, with Ok or
\* with an Err, to its caller
ReturnedFromChange == last.op \in {"add", "remove"} /\ last.result # "panic"

\* C18: every change of the entry list marks the library dirty: after
\* add_entry and after remove_entry, also a remove_entry that returns an
\* I/O error from deleting the files, an entry list that differs from what
\* it was has the dirty flag set, so that teardown writes the change.
C18_EveryChangeMarksDirty ==
    (ReturnedFromChange /\ content.entries # last.entries0) => changed

(***************************************************************************)
(* The order of the steps of import.                                       *)
(***************************************************************************)
\* a cause of failure that C19 lists holds of the last call of import: the
\* bibliography cannot be read or is not UTF-8, its extension is unknown,
\* no record or no single record is selected, the file to import has no
\* stem or no extension, or it cannot be read
FailsBeforePlacement ==
    \/ ~IsBib(imp.fs0, imp.args.resource_path)
    \/ ~BibAt(imp.fs0, imp.args.resource_path).utf8
    \/ Extension(imp.args.resource_path) # Some(BibExtension)
    \/ /\ Len(imp.r.steps) >= Len(SelectStep)
       /\ IF imp.args.key = None THEN Len(imp.r.parsed) # 1
          ELSE RecordsOfKey(imp.r.parsed, imp.args.key[1]) = {}
    \/ FileStem(imp.args.file_path) = None
    \/ Extension(imp.args.file_path) = None
    \/ ~IsFile(imp.fs0, imp.args.file_path)

\* C19: import runs read bibliography, parse, select record, split the file
\* name, digest, compute paths, place, in this order; the digest is that of
\* the bytes the file to import had before any directory was made or any
\* file moved, copied or linked; and a failure of a step before placement
\* (unreadable or non-UTF-8 bibliography, unknown extension, no or
\* ambiguous record, missing stem or extension, unreadable file) ends the
\* import with the file to import and the document root untouched.
C19_DigestBeforePlacementEarlyFailureTouchesNothing ==
    imp.op = "import" =>
        /\ \E n \in 1..Len(PlaceStep) : imp.r.steps = SubSeq(PlaceStep, 1, n)
        /\ fs # imp.fs0 => imp.r.steps = PlaceStep
        /\ imp.r.steps # PlaceStep => imp.r.result # "ok" /\ fs = imp.fs0
        /\ FailsBeforePlacement =>
               /\ imp.r.result # "ok"
               /\ imp.r.steps # PlaceStep
               /\ fs = imp.fs0
        /\ imp.r.result = "ok" =>
               imp.r.entry[1].digest
                   = Sha256(FileAt(imp.fs0, imp.args.file_path).bytes)

\* a record was selected and the file to import cannot be read: import
\* failed at the digest, and the document root, which does not exist yet,
\* was not made
C19_Witness ==
    /\ imp.op = "import"
    /\ imp.r.steps = DigestStep
    /\ imp.r.result = "Io"
    /\ imp.args.file_path = GonePath
    /\ imp.args.tags = <<MlTag, DbTag>>
    /\ fs = imp.fs0
    /\ DocumentLocation \notin fs.dirs

(***************************************************************************)
(* Two processes on one library file.  Each runs main: load_from_cfg, a    *)
(* command that adds an entry, and the drop of its Library, whose store    *)
(* is File::create, which empties the file, followed by the write of the   *)
(* document from the start of the file.  Nothing locks the file, so the    *)
(* steps of the two processes interleave in every order.                   *)
(***************************************************************************)
RaceProcs == {1, 2}

Other(p) == CHOOSE q \in RaceProcs : q # p

\* the bytes of a list of texts: each between quotes and after a comma
RECURSIVE SumLen(_)
SumLen(texts) ==
    IF Len(texts) = 0 THEN 0 ELSE Len(texts[1]) + 3 + SumLen(Tail(texts))

\* the bytes of a map of texts to texts
RECURSIVE MapLen(_, _)
MapLen(map, keys) ==
    IF keys = {} THEN 0
    ELSE LET k == CHOOSE x \in keys : TRUE
         IN  Len(k) + Len(map[k]) + 6 + MapLen(map, keys \ {k})

\* None is written as null, a text between quotes
OptionLen(option, length) == IF option = None THEN 4 ELSE length + 2

\* the number of bytes serde_json writes for one entry, less the field
\* names and the punctuation that every entry has alike
EntryLen(j) ==
    Len(j.meta.key) + Len(j.meta.title) + SumLen(j.meta.authors)
      + Len(EntryTypeToString(j.meta.entry_type)) + Len(ToDecimal(j.meta.year))
      + OptionLen(j.meta.month, 3)
      + (IF j.meta.original_tags = None THEN 4
         ELSE MapLen(j.meta.original_tags[1], DOMAIN j.meta.original_tags[1]))
      + SumLen(j.tags) + SumLen(j.file_paths) + Len(j.digest)

RECURSIVE EntriesLen(_)
EntriesLen(entries) ==
    IF Len(entries) = 0 THEN 0 ELSE EntryLen(entries[1]) + 1 + EntriesLen(Tail(entries))

\* the length of the library file, as far as its documents differ in length
FileLen(f) ==
    IF f.state = "json" THEN Len(f.creation_version) + EntriesLen(f.entries) ELSE 0

\* the file after File::create: it exists and holds nothing
EmptyFile == [state |-> "empty", creation_version |-> <<>>, entries |-> <<>>]

\* a document followed by what is left of a longer one written before it
MixedFile == [state |-> "mixed", creation_version |-> <<>>, entries |-> <<>>]

\* File::create(&self.path): the file is truncated when it is opened
FileCreate(f) == EmptyFile

\* serde_json::to_writer on the file opened by File::create: the document
\* is written from the start of the file and the file is not cut after it,
\* so what another process wrote since the file was emptied stays behind
\* the document when it is longer.  Behind a document that broke off the
\* length is not known.
ToWriter(c, f) ==
    CASE f.state \in {"empty", "absent"} -> {SerializeLibrary(c)}
      [] f.state = "json" ->
             IF FileLen(f) > FileLen(SerializeLibrary(c)) THEN {MixedFile}
             ELSE {SerializeLibrary(c)}
      [] OTHER -> {SerializeLibrary(c), MixedFile}

NoProc == [pc |-> "start", content |-> NoContent, changed |-> FALSE,
           loaded |-> AbsentFile, added |-> None, outcome |-> "none",
           finished |-> 0, overlapped |-> FALSE]

\* load_from_cfg of process p
RaceLoad(p) ==
    /\ procs[p].pc = "start"
    /\ IF file.state = "absent"
       THEN \E v \in CrateVersions :
                procs' = [procs EXCEPT ![p].pc = "running",
                                       ![p].content = DefaultLibraryFile(v),
                                       ![p].changed = TRUE]
       ELSE LET r == DeserializeLibrary(file)
            IN  procs' = [procs EXCEPT
                              ![p].pc = CASE r.result = "ok" -> "running"
                                          [] r.result = "err" -> "exited"
                                          [] r.result = "panic" -> "panicked",
                              ![p].content = r.content,
                              ![p].changed = FALSE,
                              ![p].loaded = file]
    /\ UNCHANGED <<pc, file, docs, content, changed, last, log, stored, runs, ops,
                   fs, imp>>

\* Library::add_entry of process p, once in its run
RaceAdd(p) ==
    /\ procs[p].pc = "running"
    /\ procs[p].added = None
    /\ \E entry \in EntryPool :
           procs' = [procs EXCEPT
                         ![p].content.entries = Push(procs[p].content.entries, entry),
                         ![p].changed = TRUE,
                         ![p].added = Some(entry)]
    /\ UNCHANGED <<pc, file, docs, content, changed, last, log, stored, runs, ops,
                   fs, imp>>

\* the drop of the Library of process p up to File::create in store
RaceDrop(p) ==
    /\ procs[p].pc = "running"
    /\ IF ShouldStore(procs[p].changed)
       THEN \E outcome \in {"ok", "create_failed"} :
                IF outcome = "ok"
                THEN /\ file' = FileCreate(file)
                     /\ procs' = [procs EXCEPT
                                      ![p].pc = "storing",
                                      ![p].overlapped =
                                          procs[Other(p)].pc = "storing",
                                      ![Other(p)].overlapped =
                                          procs[Other(p)].overlapped
                                            \/ procs[Other(p)].pc = "storing"]
                ELSE /\ file' = file
                     /\ procs' = [procs EXCEPT ![p].pc = "panicked",
                                               ![p].outcome = outcome]
       ELSE /\ file' = file
            /\ procs' = [procs EXCEPT ![p].pc = "done"]
    /\ UNCHANGED <<pc, docs, content, changed, last, log, stored, runs, ops, fs, imp>>

\* the rest of store in process p: to_writer, and unwrap on its result
RaceWrite(p) ==
    /\ procs[p].pc = "storing"
    /\ \E outcome \in {"ok", "write_failed"} :
           /\ IF outcome = "ok"
              THEN file' \in ToWriter(procs[p].content, file)
              ELSE file' = PartialFile
           /\ procs' = [procs EXCEPT
                            ![p].pc = IF Unwrap(outcome) = "ok" THEN "done"
                                      ELSE "panicked",
                            ![p].outcome = outcome,
                            ![p].finished =
                                1 + Cardinality({q \in RaceProcs :
                                                    procs[q].finished > 0})]
    /\ UNCHANGED <<pc, docs, content, changed, last, log, stored, runs, ops, fs, imp>>

\* the library file the two processes find: a document of at most
\* MaxEntries - 2 entries, so that each process can add one
InitRace ==
    /\ \E entries \in Libraries(MaxEntries - 2), v \in CrateVersions :
           file = SerializeLibrary([DefaultLibraryFile(v) EXCEPT !.entries = entries])
    /\ procs = [p \in RaceProcs |-> NoProc]
    /\ pc = "running"
    /\ docs = AllPaths
    /\ content = NoContent
    /\ changed = FALSE
    /\ last = NoCall
    /\ log = NoLog
    /\ stored = NoContent
    /\ runs = 1
    /\ ops = 0
    /\ fs = NoFs
    /\ imp = NoImport

NextRace == \E p \in RaceProcs : RaceLoad(p) \/ RaceAdd(p) \/ RaceDrop(p) \/ RaceWrite(p)

SpecRace == InitRace /\ [][NextRace]_vars

\* both processes loaded the same document, each added an entry and the
\* store of each succeeded
BothFlushed ==
    /\ procs # NoProcs
    /\ \A p \in RaceProcs :
           /\ procs[p].pc = "done"
           /\ procs[p].added # None
           /\ procs[p].outcome = "ok"
           /\ procs[p].loaded.state = "json"
    /\ procs[1].loaded = procs[2].loaded

\* the process whose store returned last and the one before it
LastFlusher == CHOOSE p \in RaceProcs : procs[p].finished = 2

\* the file holds the collection of the process that flushed last, which is
\* what both loaded and the one entry that process added
LastFlushWins ==
    /\ file = SerializeLibrary(procs[LastFlusher].content)
    /\ Len(file.entries) = Len(procs[LastFlusher].loaded.entries) + 1
    /\ file.entries[Len(file.entries)] = SerializeEntry(procs[LastFlusher].added[1])

\* one store emptied the file while the other was between its File::create
\* and the end of its write
Overlapped == \E p \in RaceProcs : procs[p].overlapped

\* C20 as stated: when two processes each load the same library file, each
\* add an entry and each flush, the file after both flushes equals the
\* collection of the process that flushed last, and the entry the other
\* process added is absent
C20_LastFlushWins == BothFlushed => LastFlushWins

\* what does hold: when the two stores do not overlap, the file after both
\* equals the collection of the process that flushed last
LastFlushWinsWhenStoresDoNotOverlap ==
    (BothFlushed /\ ~Overlapped) => LastFlushWins

\* the stores overlapped, the document written last is the shorter one and
\* the file is no document
StoresOverlappedAndMixed ==
    /\ BothFlushed
    /\ Overlapped
    /\ file = MixedFile

(***************************************************************************)
(* A process that stops.  sub_import is taken in its two steps, the call   *)
(* of import (cli.rs:45), which places the file, and add_entry on its Ok   *)
(* (cli.rs:60); the library file is written by the drop of the Library at  *)
(* the end of main and nowhere else on this path.  The process can stop    *)
(* between any two of these steps; what it held in memory is lost, the     *)
(* files stay.  Later runs load the library file, import and drop again.   *)
(***************************************************************************)
\* the entries the library file holds
PersistedEntries(f) == IF f.state = "json" THEN f.entries ELSE <<>>

\* the bibliographies and the commands of the runs that can stop
CrashDocs == {<<BlockFoo, BlockBar>>}

\* the configuration moves the file unless --copy is given
CrashArgs ==
    [file_path : {PaperPath, GonePath}, resource_path : {RefsPath},
     key : {None, Some(BarKey)}, force_move : {FALSE}, force_copy : BOOLEAN,
     tags : {<<>>, <<MlTag, DbTag>>}]

\* the imports of one behaviour
MaxImports == 2

\* the call of import with what the library file held when it was made
PlacingCall(args, r) ==
    [op |-> "import", conf |-> imp.conf, args |-> args,
     r |-> [r EXCEPT !.fs = NoFs], fs0 |-> fs,
     entries0 |-> content.entries, changed0 |-> changed,
     persisted0 |-> PersistedEntries(file), run |-> runs, at |-> "none"]

\* import(...) has returned r to sub_import.  The record of an import whose
\* entry was lost is kept until a later import returns Ok.
ImportReturned(args, r) ==
    /\ fs' = r.fs
    /\ pc' = IF r.result = "ok" THEN "imported" ELSE "running"
    /\ imp' = IF r.result # "ok" /\ imp.op = "lost" THEN imp ELSE PlacingCall(args, r)

ImportStep ==
    /\ pc = "running"
    /\ ops < MaxImports
    /\ \E args \in CrashArgs : ImportReturned(args, import(args, imp.conf, fs))
    /\ ops' = ops + 1
    /\ UNCHANGED <<file, docs, content, changed, last, log, stored, runs, procs>>

\* an add_entry that writes the library file when it has added the entry
AddEntryFlushing(c, f) == SerializeLibrary(c)

\* the library file after add_entry, which pushes the entry and sets the
\* flag: the file is left as it is
AddEntryFile(c, f) == f

\* lib.add_entry(entry) in the Ok arm of sub_import
AddImported ==
    /\ pc = "imported"
    /\ content' = [content EXCEPT !.entries = Push(content.entries, imp.r.entry[1])]
    /\ changed' = TRUE
    /\ file' = AddEntryFile(content', file)
    /\ pc' = "running"
    /\ last' = Call("add")
    /\ log' = [log EXCEPT !.added = TRUE]
    /\ UNCHANGED <<docs, stored, runs, ops, fs, imp, procs>>

\* the process stops where it is: no drop runs.  An import of this run that
\* returned Ok is then lost, since a run writes the library file only when
\* it ends.
Stop ==
    /\ pc \in {"running", "imported"}
    /\ pc' = "stopped"
    /\ imp' = IF imp.op = "import" /\ imp.r.result = "ok" /\ imp.run = runs
              THEN [imp EXCEPT !.op = "lost",
                               !.at = IF pc = "imported" THEN "returned" ELSE "added"]
              ELSE imp
    /\ UNCHANGED <<file, docs, content, changed, last, log, stored, runs, ops, fs,
                   procs>>

InitCrash ==
    /\ pc = "start"
    /\ \E blocks \in CrashDocs, earlier \in BOOLEAN :
           /\ imp = [op |-> "none", conf |-> DefaultVars]
           /\ fs = IF earlier THEN FsAfterEarlierImport(blocks) ELSE FreshFs(blocks)
           /\ stored = IF earlier
                       THEN [DefaultLibraryFile([major |-> 0, minor |-> 1, patch |-> 0])
                                 EXCEPT !.entries = <<EarlierImport.entry[1]>>]
                       ELSE NoContent
           /\ file = IF earlier THEN SerializeLibrary(stored) ELSE AbsentFile
    /\ content = NoContent
    /\ changed = FALSE
    /\ log = NoLog
    /\ docs = AllPaths
    /\ last = NoCall
    /\ runs = 1
    /\ ops = 0
    /\ procs = NoProcs

NextCrash ==
    \/ LoadFromCfg
    \/ ImportStep
    \/ AddImported
    \/ Drop
    \/ Stop
    \/ Restart

SpecCrash == InitCrash /\ [][NextCrash]_vars

\* the process stopped after an import had placed the file and before the
\* library was flushed, and no import has returned Ok since
StoppedBeforeFlush == imp.op = "lost"

\* the file of the lost import is at each of its destinations with the
\* bytes it had, and is gone from its source when it was moved
PlacedAndRelocated ==
    /\ \A i \in 1..Len(imp.r.paths) :
           /\ IsFile(fs, imp.r.paths[i])
           /\ FileAt(fs, imp.r.paths[i]).bytes = FileAt(imp.fs0, imp.args.file_path).bytes
    /\ imp.r.how[1] = "rename" => ~PathExists(fs, imp.args.file_path)

\* the library file holds the entries it held before the import and no
\* more: the entry of the import was never written to it
NoEntryPersisted == PersistedEntries(file) = imp.persisted0

\* C21: when the process stops after import has placed the file and before
\* the library is flushed, the file is at its destination (and, when moved,
\* gone from its source) while the persisted library holds no entry for
\* it, and this stays so through every later step: the load and the drop
\* of later runs and their imports that fail
C21_StoppedImportLeavesFileWithoutEntry ==
    StoppedBeforeFlush => (PlacedAndRelocated /\ NoEntryPersisted)

\* a later run has loaded the library and ended, the moved file still has
\* no entry
C21_Witness ==
    /\ StoppedBeforeFlush
    /\ imp.at = "added"
    /\ imp.r.how[1] = "rename"
    /\ runs > imp.run
    /\ pc = "done"
    /\ last.op = "drop"
    /\ PlacedAndRelocated
    /\ Len(PersistedEntries(file)) > 0
    /\ \A k \in 1..Len(PersistedEntries(file)) :
           PersistedEntries(file)[k] # SerializeEntry(imp.r.entry[1])

=============================================================================
